---- MODULE Spec2Model ----
(***************************************************************************)
(* Model of fastsio's ContextVar-based dependency injection                *)
(* (src/src/fastsio/dependency.py): the seven context variables, the       *)
(* DependencyContext scope, the asynchronous resolver resolve_dependencies *)
(* with its per-task dependency cache, the synchronous resolver            *)
(* _resolve_sync_dependencies, and run_with_context for asynchronous and   *)
(* synchronous handlers, run by asyncio tasks that interleave only at      *)
(* await points.                                                           *)
(***************************************************************************)
EXTENDS Integers, Sequences, FiniteSets, TLC

\* Bound: how many run_with_context calls one behaviour starts.
MaxDispatches == 2

\* The depth of nested resolver calls at which the interpreter raises
\* RecursionError (sys.getrecursionlimit(), on the scale of the model).
RecursionLimit == 4

\* The asyncio tasks of the event loop.
Tasks == {"t1", "t2"}

(***************************************************************************)
(* Values.  Every Python value of the model is a record of one shape:      *)
(*   tag  what kind of object it is ("None", "value", a wrapper type name, *)
(*        "result" for a factory's return value, "explicit", "model");     *)
(*   v    its content (the string passed in, or the factory's name);       *)
(*   by   the dispatch that supplied or computed it;                       *)
(*   n    for a factory result: which invocation of the factory within     *)
(*        that dispatch returned it (each invocation returns a new object);*)
(*   uc   for a factory result: the use_cache flag of the Depends object   *)
(*        on whose behalf the factory was invoked.                         *)
(* by, n and uc are observation labels: no operation of the code reads     *)
(* them.                                                                   *)
(***************************************************************************)
None == [tag |-> "None", v |-> "", by |-> 0, n |-> 0, uc |-> FALSE]

Passed(s, d) ==
    IF s = "None" THEN None
    ELSE [tag |-> "value", v |-> s, by |-> d, n |-> 0, uc |-> FALSE]

\* SocketID(sid), Environ(environ), Auth(auth), Reason(reason), Event(event):
\* the injectable wrapper types built from the stored value.
Wrap(type, val) == [val EXCEPT !.tag = type]

\* The object a factory invocation returns.
NewResult(f, d, k, use_cache) ==
    [tag |-> "result", v |-> f, by |-> d, n |-> k, uc |-> use_cache]

\* annotation.model_validate(data): the validated model, or a failure.
ValidPayloads == {"d1"}
model_validate(data) ==
    IF data.v \in ValidPayloads
    THEN [ok |-> TRUE, val |-> Wrap("model", data)]
    ELSE [ok |-> FALSE, val |-> None]

Empty == << >>

(***************************************************************************)
(* The context variables and DependencyContext.                            *)
(***************************************************************************)
\* In the order __enter__ sets them.
CtxVars == <<"socket_id", "environ", "auth", "reason", "data", "event", "server">>
VarNames == {CtxVars[i] : i \in 1..Len(CtxVars)}

\* A fresh context: every ContextVar reads its default, None.
RootCtx == [x \in VarNames |-> None]

\* A context is named by the task that runs in it; "copy" names the context
\* copy_context() returns to run_with_context for a synchronous handler.
Contexts == Tasks \cup {"copy"}

\* ContextVar.get, ContextVar.set and ContextVar.reset act on the context of
\* the running code, k, only.
ContextVarGet(c, k, var) == c[k][var]

\* A module-level global instead of a ContextVar: one value for all contexts.
GlobalVarSet(c, k, var, val) == [x \in DOMAIN c |-> [c[x] EXCEPT ![var] = val]]

ContextVarSet(c, k, var, val) == [c EXCEPT ![k][var] = val]

\* A reset that clears the variable instead of restoring the token's value.
ContextVarClear(c, k, token) == [c EXCEPT ![k][token.var] = None]

ContextVarReset(c, k, token) == [c EXCEPT ![k][token.var] = token.old]

\* DependencyContext.__enter__ in context k: sets every variable whose
\* argument is not None, in order, appending the token of each set.
RECURSIVE EnterFrom(_, _, _, _, _, _)
EnterFrom(i, c, k, args, d, tokens) ==
    IF i > Len(CtxVars) THEN [ctx |-> c, tokens |-> tokens]
    ELSE LET var == CtxVars[i] IN
         IF args[var] # "None"
         THEN EnterFrom(i + 1, ContextVarSet(c, k, var, Passed(args[var], d)),
                        k, args, d,
                        Append(tokens, [var |-> var, old |-> ContextVarGet(c, k, var)]))
         ELSE EnterFrom(i + 1, c, k, args, d, tokens)

Enter(c, k, args, d) == EnterFrom(1, c, k, args, d, << >>)

\* DependencyContext.__exit__: token.var.reset(token) for the tokens in
\* reverse order.
RECURSIVE ExitFrom(_, _, _, _)
ExitFrom(i, c, k, tokens) ==
    IF i < 1 THEN c
    ELSE ExitFrom(i - 1, ContextVarReset(c, k, tokens[i]), k, tokens)

\* An __exit__ that resets nothing.
ExitNothing(c, k, tokens) == c

Exit(c, k, tokens) == ExitFrom(Len(tokens), c, k, tokens)

(***************************************************************************)
(* The handlers and factories that are dispatched: their signatures as     *)
(* inspect.signature reports them.  ann is the parameter's annotation      *)
(* ("empty" for none, "Other" for a class that is no injectable type),     *)
(* dflt its default: "required" (no default), "plain" (an ordinary         *)
(* default) or "depends" (a Depends object).  Parameters are keyword-only:  *)
(* every call passes them by keyword (func(resolved), unpacked), and one   *)
(* without a default may follow one with a default.                        *)
(***************************************************************************)
Required == [kind |-> "required", dep |-> "", use_cache |-> FALSE]
Plain == [kind |-> "plain", dep |-> "", use_cache |-> FALSE]
Depends(dependency, use_cache) ==
    [kind |-> "depends", dep |-> dependency, use_cache |-> use_cache]

Param(name, ann, dflt) == [name |-> name, ann |-> ann, dflt |-> dflt]

Factories ==
    {"get_config", "get_database", "get_user_service", "get_session", "get_remote",
     "get_broken", "get_a", "get_b"}
AsyncHandlers ==
    {"h_fan", "h_mixed", "h_connect", "h_disconnect", "h_message", "h_example", "h_named",
     "h_broken", "h_cycle"}
SyncHandlers ==
    {"s_fan", "s_connect", "s_disconnect", "s_message", "s_users", "s_example", "s_broken",
     "s_plain", "s_cycle"}

\* The factories whose body can raise: that of get_remote (asynchronous)
\* raises or returns, that of get_broken (synchronous) raises.
RaisingFactories == {"get_remote", "get_broken"}

\* The names factories are registered under at import
\* (register_dependency("config", get_config)); Depends("config") keeps the
\* name, a str, as its dependency.
RegisteredNames == {"config", "database"}
Handlers == AsyncHandlers \cup SyncHandlers

Sig ==
    [f \in Factories \cup Handlers |->
      CASE f = "get_config" ->
             [async |-> FALSE, params |-> << >>]
        [] f = "get_database" ->
             [async |-> TRUE, params |-> << >>]
        [] f = "get_user_service" ->
             [async |-> TRUE, params |->
                <<Param("cfg", "Other", Depends("get_config", TRUE)),
                  Param("db", "Other", Depends("get_database", TRUE))>>]
        [] f = "get_session" ->
             [async |-> FALSE, params |->
                <<Param("sid", "SocketID", Plain),
                  Param("cfg", "Other", Depends("get_config", TRUE))>>]
        [] f = "get_remote" ->
             [async |-> TRUE, params |-> << >>]
        [] f = "get_broken" ->
             [async |-> FALSE, params |-> << >>]
        \* two factories that declare each other
        [] f = "get_a" ->
             [async |-> FALSE, params |->
                <<Param("b", "Other", Depends("get_b", TRUE))>>]
        [] f = "get_b" ->
             [async |-> FALSE, params |->
                <<Param("a", "Other", Depends("get_a", FALSE))>>]
        [] f = "h_cycle" ->
             [async |-> TRUE, params |->
                <<Param("a", "Other", Depends("get_a", TRUE))>>]
        [] f = "s_cycle" ->
             [async |-> FALSE, params |->
                <<Param("a", "Other", Depends("get_a", TRUE))>>]
        [] f = "h_broken" ->
             [async |-> TRUE, params |->
                <<Param("cfg", "Other", Depends("get_config", TRUE)),
                  Param("remote", "Other", Depends("get_remote", TRUE)),
                  Param("broken", "Other", Depends("get_broken", TRUE))>>]
        [] f = "s_plain" ->
             [async |-> FALSE, params |->
                <<Param("extra", "empty", Plain),
                  Param("opts", "Other", Plain)>>]
        [] f = "s_broken" ->
             [async |-> FALSE, params |->
                <<Param("sid", "SocketID", Plain),
                  Param("broken", "Other", Depends("get_broken", TRUE))>>]
        [] f = "h_fan" ->
             [async |-> TRUE, params |->
                <<Param("users", "Other", Depends("get_user_service", TRUE)),
                  Param("session", "Other", Depends("get_session", TRUE)),
                  Param("cfg", "Other", Depends("get_config", TRUE)),
                  Param("db", "Other", Depends("get_database", TRUE))>>]
        [] f = "h_mixed" ->
             [async |-> TRUE, params |->
                <<Param("a", "Other", Depends("get_config", FALSE)),
                  Param("b", "Other", Depends("get_config", TRUE)),
                  Param("c", "Other", Depends("get_config", FALSE)),
                  Param("d", "Other", Depends("get_config", TRUE))>>]
        [] f = "h_connect" ->
             [async |-> TRUE, params |->
                <<Param("db", "Other", Depends("get_database", TRUE)),
                  Param("sid", "SocketID", Plain),
                  Param("environ", "Environ", Plain),
                  Param("auth", "Auth", Required)>>]
        [] f = "h_disconnect" ->
             [async |-> TRUE, params |->
                <<Param("sid", "SocketID", Required),
                  Param("reason", "Reason", Plain)>>]
        [] f = "h_message" ->
             [async |-> TRUE, params |->
                <<Param("event", "Event", Plain),
                  Param("data", "Data", Plain),
                  Param("sio", "AsyncServer", Plain),
                  Param("msg", "Model", Required),
                  Param("extra", "empty", Plain),
                  Param("opts", "Other", Plain)>>]
        [] f = "h_example" ->
             [async |-> TRUE, params |->
                <<Param("config", "Other", Depends("get_config", TRUE)),
                  Param("user_service", "empty", Depends("get_user_service", TRUE))>>]
        [] f = "h_named" ->
             [async |-> TRUE, params |->
                <<Param("sid", "SocketID", Plain),
                  Param("config", "Other", Depends("config", TRUE))>>]
        [] f = "s_message" ->
             [async |-> FALSE, params |->
                <<Param("msg", "Model", Required)>>]
        [] f = "s_users" ->
             [async |-> FALSE, params |->
                <<Param("users", "Other", Depends("get_user_service", TRUE))>>]
        [] f = "s_example" ->
             [async |-> FALSE, params |->
                <<Param("db", "empty", Depends("get_database", TRUE))>>]
        [] f = "s_fan" ->
             [async |-> FALSE, params |->
                <<Param("session", "Other", Depends("get_session", TRUE)),
                  Param("cfg", "Other", Depends("get_config", TRUE)),
                  Param("cfg2", "Other", Depends("get_config", TRUE))>>]
        [] f = "s_connect" ->
             [async |-> FALSE, params |->
                <<Param("sid", "SocketID", Plain),
                  Param("auth", "Auth", Required)>>]
        [] f = "s_disconnect" ->
             [async |-> FALSE, params |->
                <<Param("sio", "Server", Plain),
                  Param("reason", "Reason", Plain)>>]]

\* The keyword arguments one run_with_context call passes for the context.
Args(sid, environ, auth, reason, data, event, server) ==
    [socket_id |-> sid, environ |-> environ, auth |-> auth, reason |-> reason,
     data |-> data, event |-> event, server |-> server]

\* What the transport delivers with a connect, a message and a disconnect
\* event, and a call that passes nothing.
ConnectWithAuth == Args("s1", "e1", "a1", "None", "None", "connect", "srv")
ConnectNoAuth == Args("s2", "None", "None", "None", "None", "connect", "None")
Message == Args("s1", "None", "None", "None", "d1", "message", "srv")
MessageWithAuth == Args("s2", "None", "a2", "r2", "d2", "message", "None")
Disconnect == Args("s1", "None", "None", "r1", "None", "disconnect", "None")
Nothing == Args("None", "None", "None", "None", "None", "None", "None")

\* The context arguments each handler is dispatched with.
Requests(h) ==
    CASE h = "h_fan" -> {Message}
      [] h = "h_mixed" -> {Nothing}
      [] h = "h_connect" -> {ConnectWithAuth, ConnectNoAuth, Message}
      [] h = "h_disconnect" -> {Disconnect, ConnectWithAuth, MessageWithAuth}
      [] h = "h_message" -> {Message, MessageWithAuth, Nothing}
      [] h = "h_example" -> {Nothing}
      [] h = "h_named" -> {Message}
      [] h = "h_broken" -> {Message}
      [] h = "s_broken" -> {Message}
      [] h = "s_plain" -> {Message}
      [] h = "h_cycle" -> {Message}
      [] h = "s_cycle" -> {Message}
      [] h = "s_message" -> {Message, MessageWithAuth, Nothing}
      [] h = "s_users" -> {Nothing}
      [] h = "s_example" -> {Nothing}
      [] h = "s_fan" -> {Message}
      [] h = "s_connect" -> {ConnectWithAuth, ConnectNoAuth, Message}
      [] h = "s_disconnect" -> {Disconnect, ConnectWithAuth}

(***************************************************************************)
(* Calling a Python function with keyword arguments.                       *)
(***************************************************************************)
\* callable(f) and asyncio.iscoroutinefunction(f): a str is neither.
callable(f) == f \in DOMAIN Sig
iscoroutinefunction(f) == callable(f) /\ Sig[f].async

\* A run_with_context that takes the coroutine path for every function.
RunsAsyncAlways(func) == TRUE

\* "if asyncio.iscoroutinefunction(func)" in run_with_context: _async_run is
\* awaited for a coroutine function, _sync_run is run to the end otherwise.
RunsAsync(func) == iscoroutinefunction(func)

\* Calling a str raises TypeError.
NotCallable == "TypeError: 'str' object is not callable"

\* func(resolved) raises TypeError before the body runs when a parameter
\* without a default is given no argument.
MissingArgument(func, resolved) ==
    \E i \in 1..Len(Sig[func].params) :
        /\ Sig[func].params[i].dflt.kind = "required"
        /\ Sig[func].params[i].name \notin DOMAIN resolved

\* d[key] = val on a Python dict.
DictSet(dict, key, val) ==
    [x \in DOMAIN dict \cup {key} |-> IF x = key THEN val ELSE dict[x]]

(***************************************************************************)
(* The dependency cache: the attribute _dependency_cache of the current    *)
(* asyncio task, None until resolve_dependencies creates the dict.         *)
(***************************************************************************)
NoCache == [set |-> FALSE, map |-> Empty]

\* getattr(asyncio.current_task(), '_dependency_cache', None), replaced by a
\* new dict stored on the task when it is None.
GetOrCreateCache(attr) == IF attr.set THEN attr ELSE [set |-> TRUE, map |-> Empty]

\* Depends._cache_key: f"_dep_cache_{id(dependency)}", one key per factory.
CacheKey(dflt) == dflt.dep

\* A resolver that forgets to store the result.
CacheStoreNever(attr, dflt, result) == attr

\* "if dep.use_cache: dependency_cache[cache_key] = result"
CacheStore(attr, dflt, result) ==
    IF dflt.use_cache
    THEN [attr EXCEPT !.map = DictSet(attr.map, CacheKey(dflt), result)]
    ELSE attr

\* A resolver that stores the result it expects before it calls the factory.
StoredBeforeCall(attr, dflt, result) == CacheStore(attr, dflt, result)

\* The cache when the call of the factory raises: the statement that stores
\* the result comes after the call and is not reached.
FailedCall(attr, dflt, result) == attr

\* A resolver that looks in the cache whatever use_cache says.
CacheHitAnyFlag(attr, dflt) == CacheKey(dflt) \in DOMAIN attr.map

\* "dep.use_cache and cache_key in dependency_cache"
CacheHit(attr, dflt) == dflt.use_cache /\ CacheKey(dflt) \in DOMAIN attr.map

(***************************************************************************)
(* One iteration of the parameter loop of resolve_dependencies, for        *)
(* parameter p of the function being resolved, in context cx with the      *)
(* task's cache attr.  The outcome is one of                               *)
(*   bind   resolved[p.name] = val, continue                               *)
(*   skip   continue, leaving the parameter out                            *)
(*   raise  the loop raises err                                            *)
(*   call   resolve the factory's own parameters, then invoke it           *)
(***************************************************************************)
Bind(val, how) == [act |-> "bind", val |-> val, err |-> "", how |-> how]
Skip == [act |-> "skip", val |-> None, err |-> "", how |-> ""]
Raise(err) == [act |-> "raise", val |-> None, err |-> err, how |-> ""]
Call == [act |-> "call", val |-> None, err |-> "", how |-> ""]

\* A resolver that binds None to a parameter it does not recognize.
UnresolvedAsNone(p) == Bind(None, "none")

\* A parameter the loop has no branch for is left out: the iteration ends
\* without a binding and without an error.
Unresolved(p) == Skip

\* A resolver without the test for explicit arguments.
NeverExplicit(p, explicit) == FALSE

\* "if param_name in explicit_kwargs"
IsExplicit(p, explicit) == p.name \in DOMAIN explicit

\* A resolver that hands the handler's explicit arguments on to the factory.
HandlerKwargs(explicit) == explicit

\* "dep_resolved = resolve_dependencies(dep.dependency)": the factory's
\* parameters are resolved with no explicit arguments.
FactoryKwargs(explicit) == Empty

\* A resolver that binds an ambient parameter whether or not the variable
\* is set.
AmbientBindsMissing(cx, var, type) ==
    Bind(IF type = "" THEN cx[var] ELSE Wrap(type, cx[var]), "ambient")

\* "x = _var.get(); if x is not None: resolved[name] = Type(x)"
Ambient(cx, var, type) ==
    IF cx[var] # None
    THEN Bind(IF type = "" THEN cx[var] ELSE Wrap(type, cx[var]), "ambient")
    ELSE Skip

\* Auth and Reason handled like the other ambient types.
AmbientAnywhere(cx, var, type, event, err) == Ambient(cx, var, type)

\* The Auth and Reason branches of resolve_dependencies.
AmbientOnlyIn(cx, var, type, event, err) ==
    IF cx[var] # None THEN Bind(Wrap(type, cx[var]), "ambient")
    ELSE IF cx["event"].v # event THEN Raise(err)
    ELSE Skip

\* A resolver that binds the payload as it is.
PydanticUnchecked(cx) == Bind(cx["data"], "model")

\* The Pydantic branch (the same in both resolvers).
PydanticModel(cx) ==
    IF cx["data"] = None THEN Raise("ValueError: no data available")
    ELSE LET r == model_validate(cx["data"]) IN
         IF r.ok THEN Bind(r.val, "model")
         ELSE Raise("ValueError: failed to validate payload")

ResolveParam(p, explicit, cx, attr) ==
    IF IsExplicit(p, explicit) THEN Bind(explicit[p.name], "explicit")
    ELSE IF p.ann = "empty" THEN Skip
    ELSE IF p.ann = "SocketID" THEN Ambient(cx, "socket_id", "SocketID")
    ELSE IF p.ann = "Environ" THEN Ambient(cx, "environ", "Environ")
    ELSE IF p.ann = "Auth"
         THEN AmbientOnlyIn(cx, "auth", "Auth", "connect",
                            "ValueError: Auth is only available in connect handler")
    ELSE IF p.ann = "Reason"
         THEN AmbientOnlyIn(cx, "reason", "Reason", "disconnect",
                            "ValueError: Reason is only available in disconnect handler")
    ELSE IF p.ann = "Data" THEN Ambient(cx, "data", "")
    ELSE IF p.ann = "Event" THEN Ambient(cx, "event", "Event")
    ELSE IF p.ann = "AsyncServer" THEN Ambient(cx, "server", "")
    ELSE IF p.ann = "Server" THEN Ambient(cx, "server", "")
    ELSE IF p.dflt.kind = "depends"
         THEN IF CacheHit(attr, p.dflt)
              THEN Bind(attr.map[CacheKey(p.dflt)], "cache")
              ELSE Call
    ELSE IF p.ann = "Model" THEN PydanticModel(cx)
    ELSE Unresolved(p)

(***************************************************************************)
(* _resolve_sync_dependencies.  A delivery [callee, param, val, how]       *)
(* records that parameter param of callee was bound to val.  calls counts  *)
(* the invocations of each factory made for a Depends object with          *)
(* use_cache=True, ucalls those made for one with use_cache=False.         *)
(***************************************************************************)
Delivery(callee, param, val, how) ==
    [callee |-> callee, param |-> param, val |-> val, how |-> how]

NoCalls == [f \in Factories |-> 0]

\* The invocation of a factory that raised: the factory and which of its
\* invocations in the dispatch it was.
NoFailure == [f |-> "", n |-> 0]

\* One more invocation of factory f, made for a Depends with this use_cache.
Invoked(obs, f, use_cache) ==
    IF use_cache THEN [obs EXCEPT !.calls[f] = @ + 1]
    ELSE [obs EXCEPT !.ucalls[f] = @ + 1]

\* How many times f has been invoked so far.
Invocations(obs, f) == obs.calls[f] + obs.ucalls[f]

\* One iteration of the parameter loop of _resolve_sync_dependencies.
SyncResolveParam(p, explicit, cx) ==
    IF IsExplicit(p, explicit) THEN Bind(explicit[p.name], "explicit")
    ELSE IF p.ann = "empty" THEN Skip
    ELSE IF p.ann = "SocketID" THEN Ambient(cx, "socket_id", "SocketID")
    ELSE IF p.ann = "Environ" THEN Ambient(cx, "environ", "Environ")
    ELSE IF p.ann = "Auth" THEN Ambient(cx, "auth", "Auth")
    ELSE IF p.ann = "Reason" THEN Ambient(cx, "reason", "Reason")
    ELSE IF p.ann = "Data" THEN Ambient(cx, "data", "")
    ELSE IF p.ann = "Event" THEN Ambient(cx, "event", "Event")
    ELSE IF p.ann = "AsyncServer" THEN Ambient(cx, "server", "")
    ELSE IF p.ann = "Server" THEN Ambient(cx, "server", "")
    ELSE IF p.dflt.kind = "depends"
         THEN IF ~iscoroutinefunction(p.dflt.dep) THEN Call
              ELSE Raise("ValueError: cannot use async dependency in sync handler")
    ELSE IF p.ann = "Model" THEN PydanticModel(cx)
    ELSE Unresolved(p)

\* The loop of _resolve_sync_dependencies(func, **explicit) from parameter i
\* on, in context cx, within dispatch d; st carries the resolved dict, the
\* error raised so far (if any), and the observations.
RECURSIVE SyncLoop(_, _, _, _, _, _)
SyncLoop(func, explicit, cx, d, i, st) ==
    IF st.err # "" \/ i > Len(Sig[func].params) THEN st
    ELSE
      LET p == Sig[func].params[i]
          o == SyncResolveParam(p, explicit, cx)
      IN
      IF o.act = "bind" THEN
          SyncLoop(func, explicit, cx, d, i + 1,
                   [st EXCEPT !.resolved = DictSet(@, p.name, o.val),
                              !.log = Append(@, Delivery(func, p, o.val, o.how))])
      ELSE IF o.act = "skip" THEN SyncLoop(func, explicit, cx, d, i + 1, st)
      ELSE IF o.act = "raise" THEN [st EXCEPT !.err = o.err]
      \* the nested calls have used up the interpreter's stack
      ELSE IF st.depth >= RecursionLimit THEN [st EXCEPT !.err = "RecursionError"]
      ELSE
        LET dep == p.dflt.dep
            \* dep_resolved = _resolve_sync_dependencies(dep.dependency)
            sub == SyncLoop(dep, FactoryKwargs(explicit), cx, d, 1,
                            [st EXCEPT !.resolved = Empty, !.depth = @ + 1])
        IN
        \* a dependency that is not callable resolves to {} and is then called
        IF ~callable(dep) THEN [st EXCEPT !.err = NotCallable]
        ELSE IF sub.err # "" THEN [sub EXCEPT !.resolved = st.resolved, !.depth = st.depth]
        ELSE IF MissingArgument(dep, sub.resolved)
        THEN [sub EXCEPT !.resolved = st.resolved, !.depth = st.depth,
                         !.err = "TypeError"]
        ELSE
          \* result = dep.dependency(dep_resolved)
          LET now == Invoked([sub EXCEPT !.depth = st.depth], dep, p.dflt.use_cache)
              result == NewResult(dep, d, Invocations(now, dep), p.dflt.use_cache)
          IN IF dep \in RaisingFactories
             THEN [now EXCEPT !.resolved = st.resolved, !.err = "FactoryError",
                              !.failed = [f |-> dep, n |-> Invocations(now, dep)]]
             ELSE
             SyncLoop(func, explicit, cx, d, i + 1,
                      [now EXCEPT !.resolved = DictSet(st.resolved, p.name, result),
                                  !.log = Append(@, Delivery(func, p, result, "call"))])

_resolve_sync_dependencies(func, explicit, cx, d) ==
    SyncLoop(func, explicit, cx, d, 1,
             [resolved |-> Empty, err |-> "", calls |-> NoCalls, ucalls |-> NoCalls,
              log |-> << >>, failed |-> NoFailure, depth |-> 1])

(***************************************************************************)
(* The registry of named dependencies: the module-level dict               *)
(* _dependency_registry, written by register_dependency and read by        *)
(* get_dependency.                                                         *)
(***************************************************************************)
MaxRegistrations == 3

\* The names looked up: the registered ones and one never registered.
LookupNames == RegisteredNames \cup {"session"}
RegisteredFactories == {"get_config", "get_database"}

\* A registry that keeps the first factory registered under a name.
register_if_absent(reg, name, factory) ==
    IF name \in DOMAIN reg THEN reg ELSE DictSet(reg, name, factory)

\* "_dependency_registry[name] = factory"
register_dependency(reg, name, factory) == DictSet(reg, name, factory)

\* "return _dependency_registry.get(name)"
get_dependency(reg, name) == IF name \in DOMAIN reg THEN reg[name] ELSE "None"

\* The registry once the application module is imported:
\* register_dependency("config", get_config) and
\* register_dependency("database", get_database).
Registration(name, factory) == [name |-> name, factory |-> factory]
AtImport ==
    <<Registration("config", "get_config"), Registration("database", "get_database")>>

RECURSIVE RegisterAll(_, _)
RegisterAll(reg, calls) ==
    IF calls = << >> THEN reg
    ELSE RegisterAll(register_dependency(reg, calls[1].name, calls[1].factory),
                     SubSeq(calls, 2, Len(calls)))

(***************************************************************************)
(* Middleware entries.  The constructor BaseMiddleware(events, namespace,  *)
(* global_middleware) takes for events nothing, one event name or a list   *)
(* of names, for namespace nothing or a name, and for the flag nothing or  *)
(* True.  An entry has the attributes events (a set), namespace and        *)
(* global_middleware.                                                      *)
(***************************************************************************)
MaxEvents == 2

EventNames == {"event1", "event2"}
Namespaces == {"/test", "/other"}

EventLists == UNION {[1..k -> EventNames] : k \in 1..MaxEvents}
EventsArgs ==
    {[kind |-> "none", names |-> << >>]}
    \cup {[kind |-> "str", names |-> <<e>>] : e \in EventNames}
    \cup {[kind |-> "list", names |-> l] : l \in EventLists}
FlagArgs == {"omitted", "True"}

\* The set of event names the events argument stands for.
EventSet(events) ==
    IF events.kind = "none" THEN {}
    ELSE {events.names[i] : i \in 1..Len(events.names)}

\* The value of the flag argument, True by default.
FlagValue(flag) == flag \in {"omitted", "True"}

\* A constructor that keeps the flag as passed.
BaseMiddlewareKeepingFlag(events, namespace, flag) ==
    [events |-> EventSet(events), namespace |-> namespace,
     global_middleware |-> FlagValue(flag)]

\* The flag is forced false when an event filter or a namespace is given.
BaseMiddleware(events, namespace, flag) ==
    [events |-> EventSet(events), namespace |-> namespace,
     global_middleware |->
        IF events.kind # "none" \/ namespace # "None" THEN FALSE ELSE FlagValue(flag)]

\* A predicate for which one matching filter is enough.
should_run_either(entry, event, namespace) ==
    \/ entry.global_middleware
    \/ entry.namespace # "None" /\ entry.namespace = namespace
    \/ event \in entry.events

\* True if global_middleware is set, or if the entry's namespace (when set)
\* matches and the entry's event filter (when non-empty) contains event.
should_run(entry, event, namespace) ==
    \/ entry.global_middleware
    \/ /\ entry.namespace = "None" \/ entry.namespace = namespace
       /\ entry.events = {} \/ event \in entry.events

(***************************************************************************)
(* The middleware chain.  MiddlewareChain keeps its entries in the list    *)
(* middlewares, in registration order.  An entry is a middleware class     *)
(* instance: its filter attributes as its constructor sets them, and what  *)
(* its three hooks do.  A before-hook returns the payload unchanged        *)
(* ("default"), returns a changed payload ("modify") or raises a rejection *)
(* ("raise"); an after-hook returns the response unchanged or changed; an  *)
(* exception hook re-raises the exception ("raise") or returns a fallback  *)
(* value ("fallback").                                                     *)
(***************************************************************************)
MaxChain == 3

Entry(name, events, namespace, flag, before, after, on_exception) ==
    [name |-> name, filter |-> BaseMiddleware(events, namespace, flag),
     before_event |-> before, after_event |-> after, handle_exception |-> on_exception]

Instance(class) ==
    LET NoEvents == [kind |-> "none", names |-> << >>]
        ListOf(names) == [kind |-> "list", names |-> names]
    IN
    CASE class = "BaseMiddleware" ->
           Entry(class, NoEvents, "None", "omitted", "default", "default", "raise")
      [] class = "SyncMiddleware" ->
           Entry(class, NoEvents, "None", "omitted", "default", "default", "raise")
      [] class = "TestMiddleware" ->
           Entry(class, NoEvents, "None", "omitted", "modify", "modify", "raise")
      [] class = "FilteredMiddleware" ->
           Entry(class, ListOf(<<"event1">>), "None", "omitted", "modify", "default", "raise")
      [] class = "AuthCheckMiddleware" ->
           Entry(class, ListOf(<<"event1", "event2">>), "None", "omitted",
                 "raise", "default", "raise")
      [] class = "FallbackMiddleware" ->
           Entry(class, NoEvents, "/test", "omitted", "default", "modify", "fallback")

Entries ==
    {Instance(class) : class \in
        {"BaseMiddleware", "SyncMiddleware", "TestMiddleware", "FilteredMiddleware",
         "AuthCheckMiddleware", "FallbackMiddleware"}}

Members(chain) == {chain[i] : i \in 1..Len(chain)}

add_middleware(chain, m) == Append(chain, m)

\* Removal that takes the entry registered last.
remove_last(chain, m) == IF chain = << >> THEN chain ELSE SubSeq(chain, 1, Len(chain) - 1)

\* Removing an entry that is not registered changes nothing.
remove_middleware(chain, m) == SelectSeq(chain, LAMBDA x : x # m)

\* The hooks' effects: a changed payload or response carries the name of the
\* entry that changed it.
before_event(m, payload) ==
    IF m.before_event = "modify" THEN Append(payload, m.name) ELSE payload

\* An after-hook that marks every response.
after_event_marking(m, response) == [response EXCEPT !.trail = Append(@, m.name)]

after_event(m, response) ==
    IF m.after_event = "modify"
    THEN [response EXCEPT !.trail = Append(@, m.name)]
    ELSE response

Rejection == "PermissionError: Authentication required"
HandlerError == "Exception: test error"

HookCall(m, hook, arg) == [entry |-> m.name, hook |-> hook, arg |-> arg]

\* A selection that takes every registered entry.
SelectAll(chain, event, namespace) == chain

\* Step 1: the registered entries whose should_run(event, namespace) holds.
Selected(chain, event, namespace) ==
    SelectSeq(chain, LAMBDA m : should_run(m.filter, event, namespace))

\* Step 2: the before-hooks from the i-th selected entry on, in order, each
\* given the payload the one before it returned; failed is the position of
\* the entry whose hook raised (0 for none).
RECURSIVE RunBefore(_, _, _, _)
RunBefore(sel, i, payload, log) ==
    IF i > Len(sel) THEN [payload |-> payload, log |-> log, failed |-> 0]
    ELSE LET l == Append(log, HookCall(sel[i], "before_event", payload)) IN
         IF sel[i].before_event = "raise"
         THEN [payload |-> payload, log |-> l, failed |-> i]
         ELSE RunBefore(sel, i + 1, before_event(sel[i], payload), l)

\* Step 4: the after-hooks from the i-th selected entry down to the first,
\* each given the response the one before it returned.
RECURSIVE RunAfter(_, _, _, _)
RunAfter(sel, i, response, log) ==
    IF i = 0 THEN [response |-> response, log |-> log]
    ELSE RunAfter(sel, i - 1, after_event(sel[i], response),
                  Append(log, HookCall(sel[i], "after_event", response)))

\* Step 5: the exception hooks of the first n selected entries from the
\* i-th on, in order, with the original exception and payload, until one
\* returns a fallback value.
RECURSIVE RunExceptionHooks(_, _, _, _, _, _)
RunExceptionHooks(sel, n, i, exception, data, log) ==
    IF i > n THEN [suppressed |-> FALSE, by |-> "", log |-> log]
    ELSE LET l == Append(log, HookCall(sel[i], "handle_exception", <<exception, data>>)) IN
         IF sel[i].handle_exception = "fallback"
         THEN [suppressed |-> TRUE, by |-> sel[i].name, log |-> l]
         ELSE RunExceptionHooks(sel, n, i + 1, exception, data, l)

\* Exception hooks of every selected entry, started or not.
Everyone(sel, failed) == Len(sel)

\* The number of selected entries that have started: all of them, or those
\* up to the one whose before-hook raised.
Started(sel, failed) == IF failed = 0 THEN Len(sel) ELSE failed

NoResponse == [received |-> << >>, trail |-> << >>]

Execution(event, namespace, sid, data, handler, sel, log, calls, outcome, result, err) ==
    [event |-> event, namespace |-> namespace, sid |-> sid, data |-> data,
     handler |-> handler, selected |-> sel, log |-> log, calls |-> calls,
     outcome |-> outcome, result |-> result, err |-> err]

\* How an exception raised with the first n selected entries started ends.
Failure(event, namespace, sid, data, handler, sel, n, exception, log, calls) ==
    LET x == RunExceptionHooks(sel, n, 1, exception, data, log) IN
    IF x.suppressed
    THEN Execution(event, namespace, sid, data, handler, sel, x.log, calls,
                   "returned", [received |-> << >>, trail |-> <<"fallback", x.by>>], "")
    ELSE Execution(event, namespace, sid, data, handler, sel, x.log, calls,
                   "raised", NoResponse, exception)

\* The handler called on a payload that is not the one the before-hooks
\* returned.
CallWithOriginal(chain, sid, data, payload) ==
    IF chain = << >> THEN <<data>> ELSE <<sid, data>>

\* Step 3: the arguments the handler is called with: the payload alone by
\* an empty chain, the connection id and the final payload otherwise.
HandlerArgs(chain, sid, data, payload) ==
    IF chain = << >> THEN <<payload>> ELSE <<sid, payload>>

\* MiddlewareChain.execute(event, sid, data, handler, namespace): a handler
\* that is a coroutine function is awaited.
execute(chain, event, sid, data, handler, namespace) ==
    LET sel == Selected(chain, event, namespace)
        b == RunBefore(sel, 1, data, << >>)
        args == HandlerArgs(chain, sid, data, b.payload)
    IN IF b.failed # 0
       THEN Failure(event, namespace, sid, data, handler, sel, Started(sel, b.failed),
                    Rejection, b.log, << >>)
       ELSE IF handler.raises
       THEN Failure(event, namespace, sid, data, handler, sel, Started(sel, 0),
                    HandlerError, b.log, <<args>>)
       ELSE LET a == RunAfter(sel, Len(sel),
                              [received |-> args[Len(args)], trail |-> << >>], b.log)
            IN Execution(event, namespace, sid, data, handler, sel, a.log, <<args>>,
                         "returned", a.response, "")

(***************************************************************************)
(* State.                                                                  *)
(*   ctx        the value of every context variable in every context       *)
(*   taskCache  each task's _dependency_cache attribute                    *)
(*   stack      each task's chain of coroutines, all suspended at an       *)
(*              await: run frames (_async_run, inside its with block) and  *)
(*              resolve frames (resolve_dependencies)                      *)
(*   exc        the exception a nested run_with_context call has raised    *)
(*              into the handler that awaits it ("" for none)              *)
(*   nextId     the number the next run_with_context call is known by      *)
(*   last       what the run_with_context call that finished in the latest *)
(*              step did (NoDispatch when the latest step finished none)   *)
(*   injected   what the call of an inject_dependencies wrapper made in    *)
(*              the latest step did (NoInjected when none was made)        *)
(*   registry   the dict _dependency_registry                              *)
(*   history    the register_dependency calls made so far, in order        *)
(*   looked     the get_dependency call made in the latest step            *)
(*   middleware the middleware entry constructed last, with the arguments  *)
(*              it was constructed from                                    *)
(*   ran        the should_run call made on it in the latest step          *)
(*   middlewares the list of entries of a MiddlewareChain                  *)
(*   changed    the add_middleware or remove_middleware call made last     *)
(*   executed   the execute call made in the latest step                   *)
(*   scopes     the DependencyContext objects a program uses directly: of  *)
(*              each its _tokens list, the tokens of it that reset has     *)
(*              used, and how many of its enters have no exit yet; how     *)
(*              many enters were made, and the error of the latest exit    *)
(* asyncio runs one task at a time and switches tasks only at an await, so *)
(* every action runs a task from one await to the next.                    *)
(***************************************************************************)
VARIABLES ctx, taskCache, stack, exc, nextId, last, injected,
          registry, history, looked, middleware, ran,
          middlewares, changed, executed, scopes

vars == <<ctx, taskCache, stack, exc, nextId, last, injected,
          registry, history, looked, middleware, ran,
          middlewares, changed, executed, scopes>>

RunFrame(func, d, parent, args, explicit, tokens, before) ==
    [kind |-> "run", func |-> func, pc |-> "resolving", d |-> d, parent |-> parent,
     args |-> args, explicit |-> explicit, tokens |-> tokens, before |-> before,
     calls |-> NoCalls, ucalls |-> NoCalls, log |-> << >>, called |-> FALSE,
     given |-> Empty, failed |-> NoFailure]

ResolveFrame(func, explicit) ==
    [kind |-> "resolve", func |-> func, pc |-> "loop", explicit |-> explicit,
     idx |-> 1, resolved |-> Empty]

Top(s) == s[Len(s)]
Pop(s) == SubSeq(s, 1, Len(s) - 1)

\* The innermost run frame of a stack: the dispatch its top frame works for.
RunIdx(s) == CHOOSE i \in 1..Len(s) :
                 s[i].kind = "run" /\ \A j \in (i + 1)..Len(s) : s[j].kind # "run"

Finished(fr, t, outcome, err, after, sync) ==
    [d |-> fr.d, task |-> t, func |-> fr.func, parent |-> fr.parent, args |-> fr.args,
     explicit |-> fr.explicit, outcome |-> outcome, err |-> err, called |-> fr.called,
     given |-> fr.given, calls |-> fr.calls, ucalls |-> fr.ucalls, log |-> fr.log,
     before |-> fr.before, failed |-> fr.failed,
     after |-> after, sync |-> sync]

NoDispatch ==
    Finished(RunFrame("", 0, 0, Nothing, Empty, << >>, RootCtx), "", "", "", RootCtx, FALSE)

NoInjected ==
    [func |-> "", args |-> << >>, loop |-> FALSE, called |-> FALSE, given |-> Empty,
     err |-> "", calls |-> NoCalls, ucalls |-> NoCalls, log |-> << >>]

NoLookup == [name |-> "", result |-> "None"]

\* No dispatch made yet.
NoDispatches ==
    /\ ctx = [k \in Contexts |-> RootCtx]
    /\ taskCache = [t \in Tasks |-> NoCache]
    /\ stack = [t \in Tasks |-> << >>]
    /\ exc = [t \in Tasks |-> ""]
    /\ nextId = 1
    /\ last = NoDispatch
    /\ injected = NoInjected
    /\ scopes = [objs |-> [o \in {"a", "b"} |-> [tokens |-> << >>, used |-> {}, open |-> 0]],
                 entered |-> 0, err |-> ""]

NoMiddleware ==
    [built |-> FALSE, events |-> [kind |-> "none", names |-> << >>],
     namespace |-> "None", flag |-> "omitted",
     entry |-> [events |-> {}, namespace |-> "None", global_middleware |-> TRUE]]

NoRun == [event |-> "", namespace |-> "", result |-> FALSE]

NoChange == [op |-> "", entry |-> "", before |-> << >>, raised |-> FALSE]

NoExecution ==
    Execution("", "", "", << >>, [async |-> FALSE, raises |-> FALSE], << >>, << >>, << >>,
              "", NoResponse, "")

NoMiddlewares ==
    /\ middleware = NoMiddleware
    /\ ran = NoRun
    /\ middlewares = << >>
    /\ changed = NoChange
    /\ executed = NoExecution

\* The application module has been imported and has registered its named
\* dependencies; no event has been dispatched.
Init ==
    /\ NoDispatches
    /\ NoMiddlewares
    /\ registry = RegisterAll(Empty, AtImport)
    /\ history = AtImport
    /\ looked = NoLookup

\* What a step of a dispatch leaves alone.
Elsewhere ==
    /\ injected' = NoInjected
    /\ UNCHANGED <<registry, history, looked, middleware, ran, middlewares, changed,
                   executed, scopes>>

\* What one run of task t works on, and how the run's result becomes the
\* next state.
Machine(t) ==
    [ctx |-> ctx, cache |-> taskCache[t], stack |-> stack[t], exc |-> exc[t],
     last |-> NoDispatch]

Commit(t, result) ==
    \E m \in {result} :
        /\ ctx' = m.ctx
        /\ taskCache' = [taskCache EXCEPT ![t] = m.cache]
        /\ stack' = [stack EXCEPT ![t] = m.stack]
        /\ exc' = [exc EXCEPT ![t] = m.exc]
        /\ last' = m.last

\* Observations kept in the run frame of the dispatch the stack's top works for.
Observe(s, entry) == [s EXCEPT ![RunIdx(s)].log = Append(@, entry)]
CountCall(s, dflt) == [s EXCEPT ![RunIdx(s)] = Invoked(@, dflt.dep, dflt.use_cache)]

\* resolved.update(kwargs)
Update(resolved, kwargs) ==
    [x \in DOMAIN resolved \cup DOMAIN kwargs |->
        IF x \in DOMAIN kwargs THEN kwargs[x] ELSE resolved[x]]

\* The parameter a resolve frame is working on.
Current(fr) == Sig[fr.func].params[fr.idx]

(***************************************************************************)
(* resolve_dependencies: one iteration of "for param_name, param in        *)
(* sig.parameters.items()".  A cache miss on a Depends parameter calls     *)
(* resolve_dependencies(dep.dependency), whose first statements fetch or   *)
(* create the task's cache.                                                *)
(***************************************************************************)
ResolveStep(m, t) ==
    LET s == m.stack
        n == Len(s)
        fr == s[n]
        p == Current(fr)
        o == ResolveParam(p, fr.explicit, m.ctx[t], m.cache)
    IN CASE o.act = "bind" ->
              [m EXCEPT !.stack =
                  Observe([s EXCEPT ![n].resolved = DictSet(@, p.name, o.val),
                                    ![n].idx = @ + 1],
                          Delivery(fr.func, p, o.val, o.how))]
         [] o.act = "skip" -> [m EXCEPT !.stack[n].idx = @ + 1]
         [] o.act = "raise" -> [m EXCEPT !.exc = o.err]
         [] o.act = "call" ->
              \* resolve_dependencies of a dependency that is not callable
              \* returns {} at once, and calling the dependency raises
              IF ~callable(p.dflt.dep) THEN [m EXCEPT !.exc = NotCallable]
              \* the nested calls have used up the interpreter's stack
              ELSE IF n - RunIdx(s) >= RecursionLimit
              THEN [m EXCEPT !.exc = "RecursionError"]
              ELSE [m EXCEPT !.stack = [s EXCEPT ![n].pc = "sub"]
                                          \o <<ResolveFrame(p.dflt.dep,
                                                            FactoryKwargs(fr.explicit))>>,
                             !.cache = GetOrCreateCache(@)]

\* A factory has returned to the resolve frame on top of the stack: "if
\* dep.use_cache: dependency_cache[cache_key] = result;
\* resolved[param_name] = result; continue".
FactoryResult(m, t) ==
    LET s == m.stack
        n == Len(s)
        p == Current(s[n])
        run == s[RunIdx(s)]
        result == NewResult(p.dflt.dep, run.d, Invocations(run, p.dflt.dep),
                            p.dflt.use_cache)
    IN [m EXCEPT !.stack =
              Observe([s EXCEPT ![n].resolved = DictSet(@, p.name, result),
                                ![n].idx = @ + 1,
                                ![n].pc = "loop"],
                      Delivery(s[n].func, p, result, "call")),
                 !.cache = CacheStore(@, p.dflt, result)]

\* The call of the factory raises in the resolve frame on top of the stack:
\* nothing in resolve_dependencies catches the exception.
FactoryFailure(m, t) ==
    LET s == m.stack
        p == Current(s[Len(s)])
        run == s[RunIdx(s)]
        n == Invocations(run, p.dflt.dep)
    IN [m EXCEPT !.stack[RunIdx(s)].failed = [f |-> p.dflt.dep, n |-> n],
                 !.cache = FailedCall(@, p.dflt,
                                      NewResult(p.dflt.dep, run.d, n, p.dflt.use_cache)),
                 !.exc = "FactoryError"]

(***************************************************************************)
(* resolve_dependencies returns its dict.  To _async_run: resolved.update  *)
(* (kwargs), then func(resolved) starts the handler.  To the resolving     *)
(* loop of a Depends parameter: dep.dependency(dep_resolved) is called,    *)
(* and awaited when the factory is a coroutine function.                   *)
(***************************************************************************)
ResolveReturn(m, t) ==
    LET fr == Top(m.stack)
        rest == Pop(m.stack)
        k == Len(rest)
        below == rest[k]
    IN IF below.kind = "run"
       THEN LET given == Update(fr.resolved, below.explicit) IN
            IF MissingArgument(below.func, given)
            THEN [m EXCEPT !.stack = rest, !.exc = "TypeError"]
            ELSE [m EXCEPT !.stack = [rest EXCEPT ![k].pc = "body", ![k].called = TRUE,
                                                  ![k].given = given]]
       ELSE LET dep == Current(below).dflt IN
            IF MissingArgument(dep.dep, fr.resolved)
            THEN [m EXCEPT !.stack = rest, !.exc = "TypeError"]
            ELSE IF Sig[dep.dep].async
            THEN [m EXCEPT !.stack = CountCall([rest EXCEPT ![k].pc = "body"], dep)]
            ELSE IF dep.dep \in RaisingFactories
            THEN FactoryFailure([m EXCEPT !.stack = CountCall(rest, dep)], t)
            ELSE FactoryResult([m EXCEPT !.stack = CountCall(rest, dep)], t)

\* Cleanup written as "except Exception", which CancelledError (a
\* BaseException) passes by: the frames go, the tokens are not reset.
LeaveScopeUnlessCancelled(m, t, outcome, err) ==
    LET s == m.stack
        i == RunIdx(s)
        fr == s[i]
        rest == SubSeq(s, 1, i - 1)
        c == IF err = "CancelledError" THEN m.ctx ELSE Exit(m.ctx, t, fr.tokens)
    IN [m EXCEPT !.ctx = c,
                 !.last = Finished(fr, t, outcome, err, c[t], FALSE),
                 !.stack = IF rest # << >> /\ outcome = "returned"
                           THEN [rest EXCEPT ![Len(rest)].pc = "body"] ELSE rest,
                 !.exc = IF rest = << >> THEN "" ELSE err]

\* Control leaves the with block of the innermost _async_run of task t:
\* DependencyContext.__exit__ runs, and run_with_context returns or raises
\* to its caller, the task's own code or the handler that awaits it.
LeaveScope(m, t, outcome, err) ==
    LET s == m.stack
        i == RunIdx(s)
        fr == s[i]
        rest == SubSeq(s, 1, i - 1)
        c == Exit(m.ctx, t, fr.tokens)
    IN [m EXCEPT !.ctx = c,
                 !.last = Finished(fr, t, outcome, err, c[t], FALSE),
                 !.stack = IF rest # << >> /\ outcome = "returned"
                           THEN [rest EXCEPT ![Len(rest)].pc = "body"] ELSE rest,
                 !.exc = IF rest = << >> THEN "" ELSE err]

\* Task t runs until its innermost coroutine awaits (the body of an
\* asynchronous factory or of the handler) or its run_with_context call ends.
RECURSIVE RunToAwait(_, _)
RunToAwait(machine, t) ==
    \* (the state is bound to m once, so that each step is evaluated once)
    CHOOSE end \in
        {IF m.last # NoDispatch \/ m.stack = << >> THEN m
         ELSE IF m.exc # "" THEN LeaveScope(m, t, "raised", m.exc)
         ELSE LET fr == Top(m.stack) IN
              IF fr.kind = "resolve" /\ fr.pc = "loop"
              THEN IF fr.idx <= Len(Sig[fr.func].params)
                   THEN RunToAwait(ResolveStep(m, t), t)
                   ELSE RunToAwait(ResolveReturn(m, t), t)
              ELSE m
         : m \in {machine}} : TRUE

\* Code of task t can call run_with_context: the task's own top-level code,
\* or the body of an asynchronous handler.
CanDispatch(t) ==
    /\ exc[t] = ""
    /\ nextId <= MaxDispatches
    \* the tasks are interchangeable: the one that dispatches first is t1
    /\ nextId = 1 => t = "t1"
    /\ IF stack[t] = << >> THEN TRUE
       ELSE Top(stack[t]).kind = "run" /\ Top(stack[t]).pc = "body"

\* The explicit keyword arguments (kwargs) of the modelled calls: none, or
\* a value for one parameter of the handler.
ExplicitValue(d) == [tag |-> "explicit", v |-> "x", by |-> d, n |-> 0, uc |-> FALSE]
ExplicitNames(h) ==
    CASE h = "h_connect" -> {{}, {"auth"}}
      [] h = "h_fan" -> {{}, {"users"}, {"cfg"}}
      [] h = "s_fan" -> {{}, {"cfg"}}
      [] h = "h_message" -> {{}, {"msg"}}
      [] h = "s_connect" -> {{}, {"auth"}}
      [] h = "s_message" -> {{}, {"msg"}}
      [] OTHER -> {{}}
Explicit(names, d) == [x \in names |-> ExplicitValue(d)]

\* Whether the body of a synchronous handler raises, for the modelled calls.
SyncRaises(h) == IF h = "s_fan" THEN BOOLEAN ELSE {FALSE}

\* The stack of a caller while it awaits a nested run_with_context.
Awaiting(s) ==
    IF s = << >> THEN s ELSE [s EXCEPT ![Len(s)].pc = "nested"]

(***************************************************************************)
(* run_with_context(func, ...) with an asynchronous func: _async_run       *)
(* enters the DependencyContext in the task's own context and awaits       *)
(* resolve_dependencies(func, kwargs) and then the handler.                *)
(***************************************************************************)
RunWithContextAsync(t, h, args, names) ==
    /\ CanDispatch(t)
    /\ RunsAsync(h)
    /\ LET d == nextId
           parent == IF stack[t] = << >> THEN 0 ELSE Top(stack[t]).d
           e == Enter(ctx, t, args, d)
           kw == Explicit(names, d)
           m == [Machine(t) EXCEPT
                   !.ctx = e.ctx,
                   !.stack = Awaiting(@) \o
                                <<RunFrame(h, d, parent, args, kw, e.tokens, ctx[t]),
                                  ResolveFrame(h, kw)>>,
                   !.cache = GetOrCreateCache(@)]
       IN /\ Commit(t, RunToAwait(m, t))
          /\ nextId' = d + 1
    /\ Elsewhere

\* The awaited coroutine never completes: the task stays where it is.
FactoryPending(t) ==
    /\ exc[t] = ""
    /\ stack[t] # << >>
    /\ Top(stack[t]).kind = "resolve"
    /\ Top(stack[t]).pc = "body"
    /\ last' = NoDispatch
    /\ UNCHANGED <<ctx, taskCache, stack, exc, nextId>>
    /\ Elsewhere

\* "result = await dep.dependency(dep_resolved)" completes and the resolver
\* goes on.
FactoryReturn(t) ==
    /\ exc[t] = ""
    /\ stack[t] # << >>
    /\ Top(stack[t]).kind = "resolve"
    /\ Top(stack[t]).pc = "body"
    /\ Commit(t, RunToAwait(FactoryResult(Machine(t), t), t))
    /\ UNCHANGED nextId
    /\ Elsewhere

\* "result = await dep.dependency(dep_resolved)" raises.
FactoryRaise(t) ==
    /\ exc[t] = ""
    /\ stack[t] # << >>
    /\ Top(stack[t]).kind = "resolve"
    /\ Top(stack[t]).pc = "body"
    /\ Current(Top(stack[t])).dflt.dep \in RaisingFactories
    /\ Commit(t, RunToAwait(FactoryFailure(Machine(t), t), t))
    /\ UNCHANGED nextId
    /\ Elsewhere

\* "return await func(resolved)": the handler returns.
HandlerReturn(t) ==
    /\ exc[t] = ""
    /\ stack[t] # << >>
    /\ Top(stack[t]).kind = "run"
    /\ Top(stack[t]).pc = "body"
    /\ Commit(t, LeaveScope(Machine(t), t, "returned", ""))
    /\ UNCHANGED nextId
    /\ Elsewhere

\* The handler's body raises.
HandlerRaise(t) ==
    /\ exc[t] = ""
    /\ stack[t] # << >>
    /\ Top(stack[t]).kind = "run"
    /\ Top(stack[t]).pc = "body"
    /\ Commit(t, LeaveScope(Machine(t), t, "raised", "HandlerError"))
    /\ UNCHANGED nextId
    /\ Elsewhere

\* The exception of a nested run_with_context call propagates out of the
\* handler that awaited it: that handler does not catch it.
Unwind(t) ==
    /\ exc[t] # ""
    /\ stack[t] # << >>
    /\ Commit(t, LeaveScope(Machine(t), t, "raised", exc[t]))
    /\ UNCHANGED nextId
    /\ Elsewhere

\* task.cancel() on a task suspended at an await, inside a factory or inside
\* the handler: CancelledError is thrown into its innermost coroutine.
Cancel(t) ==
    /\ exc[t] = ""
    /\ stack[t] # << >>
    /\ Commit(t, LeaveScope(Machine(t), t, "raised", "CancelledError"))
    /\ UNCHANGED nextId
    /\ Elsewhere

\* The task ends and a new task takes its place: a new task has no
\* _dependency_cache attribute and starts in a fresh context.
NewTask(t) ==
    /\ stack[t] = << >>
    /\ taskCache[t].set
    /\ taskCache' = [taskCache EXCEPT ![t] = NoCache]
    /\ ctx' = [ctx EXCEPT ![t] = RootCtx]
    /\ last' = NoDispatch
    /\ UNCHANGED <<stack, exc, nextId>>
    /\ Elsewhere

(***************************************************************************)
(* run_with_context(func, ...) with a synchronous func: ctx.run(_sync_run) *)
(* on a copy of the caller's context.  _sync_run enters the                *)
(* DependencyContext, resolves with _resolve_sync_dependencies, calls the  *)
(* handler and leaves the with block, without an await in between.         *)
(***************************************************************************)
RunWithContextSync(t, h, args, names, raises) ==
    /\ CanDispatch(t)
    /\ ~RunsAsync(h)
    /\ LET d == nextId
           parent == IF stack[t] = << >> THEN 0 ELSE Top(stack[t]).d
           kw == Explicit(names, d)
           copied == [ctx EXCEPT !["copy"] = ctx[t]]
       IN \E e \in {Enter(copied, "copy", args, d)} :
          \E r \in {_resolve_sync_dependencies(h, kw, e.ctx["copy"], d)} :
          \E c \in {Exit(e.ctx, "copy", e.tokens)} :
            LET given == Update(r.resolved, kw)
                called == r.err = "" /\ ~MissingArgument(h, given)
                err == IF r.err # "" THEN r.err
                       ELSE IF ~called THEN "TypeError"
                       ELSE IF raises THEN "HandlerError" ELSE ""
                fr == [RunFrame(h, d, parent, args, kw, e.tokens, ctx[t])
                          EXCEPT !.calls = r.calls, !.ucalls = r.ucalls, !.log = r.log,
                                 !.failed = r.failed,
                                 !.called = called,
                                 !.given = IF called THEN given ELSE Empty]
            IN /\ ctx' = [c EXCEPT !["copy"] = RootCtx]
               /\ last' = Finished(fr, t, IF err = "" THEN "returned" ELSE "raised",
                                   err, c[t], TRUE)
               /\ exc' = [exc EXCEPT ![t] = IF stack[t] = << >> THEN "" ELSE err]
               /\ nextId' = d + 1
    /\ UNCHANGED <<taskCache, stack>>
    /\ Elsewhere

(***************************************************************************)
(* inject_dependencies(func) with a synchronous func: a call of the        *)
(* wrapper runs resolve_dependencies (the asynchronous resolver) to the    *)
(* end on an event loop and then calls func.  Called by code of a task,    *)
(* the loop is running: loop.run_until_complete raises RuntimeError, which *)
(* the wrapper takes for "no running loop", and asyncio.run raises         *)
(* RuntimeError again.  Called by a thread that runs no loop, asyncio.run  *)
(* resolves in a new task of a new loop, awaited factories included; the   *)
(* new task has no cache and its context, a copy of the thread's, has no   *)
(* variable set.  The wrapper accepts positional arguments (args) next to  *)
(* the keyword arguments.                                                  *)
(***************************************************************************)
Wrapped == {"s_users", "s_fan"}

LoopIsRunning == "RuntimeError: asyncio.run() cannot be called from a running event loop"

\* asyncio.run(_resolve()) followed by func(resolved): the machine runs
\* until the handler is called or an error ends the call.
RECURSIVE RunToEnd(_, _)
RunToEnd(m, t) ==
    LET n == RunToAwait(m, t) IN
    IF n.last # NoDispatch \/ n.stack = << >> THEN n
    ELSE IF Top(n.stack).kind = "resolve" /\ Top(n.stack).pc = "body"
    THEN RunToEnd(FactoryResult(n, t), t)
    ELSE n

SyncWrapper(h, caller, args) ==
    /\ h \in Wrapped
    /\ nextId <= MaxDispatches
    /\ IF caller \in Tasks
       THEN /\ CanDispatch(caller)
            /\ injected' = [NoInjected EXCEPT !.func = h, !.args = args, !.loop = TRUE,
                                              !.err = LoopIsRunning]
       ELSE LET m == [ctx |-> ctx, cache |-> GetOrCreateCache(NoCache),
                      stack |-> <<RunFrame(h, nextId, 0, Nothing, Empty, << >>, RootCtx),
                                  ResolveFrame(h, Empty)>>,
                      exc |-> "", last |-> NoDispatch]
            IN \E e \in {RunToEnd(m, "copy")} :
               LET o == IF e.last # NoDispatch THEN e.last ELSE Top(e.stack) IN
               \* "func(resolved)": args is used nowhere in the wrapper
               injected' = [func |-> h, args |-> args, loop |-> FALSE,
                            called |-> o.called, given |-> o.given,
                            err |-> IF e.last # NoDispatch THEN e.last.err ELSE "",
                            calls |-> o.calls, ucalls |-> o.ucalls, log |-> o.log]
    /\ nextId' = nextId + 1
    /\ last' = NoDispatch
    /\ UNCHANGED <<ctx, taskCache, stack, exc, registry, history, looked,
                   middleware, ran, middlewares, changed, executed, scopes>>

Next ==
    \/ \E h \in Wrapped, caller \in Tasks \cup {"thread"} :
         \E args \in {<< >>, <<ExplicitValue(nextId)>>} : SyncWrapper(h, caller, args)
    \/ \E t \in Tasks, h \in Handlers : \E args \in Requests(h) :
         \E names \in ExplicitNames(h) : RunWithContextAsync(t, h, args, names)
    \/ \E t \in Tasks, h \in Handlers : \E args \in Requests(h) :
         \E names \in ExplicitNames(h), raises \in SyncRaises(h) :
            RunWithContextSync(t, h, args, names, raises)
    \/ \E t \in Tasks : FactoryReturn(t)
    \/ \E t \in Tasks : FactoryRaise(t)
    \/ \E t \in Tasks : HandlerReturn(t)
    \/ \E t \in Tasks : HandlerRaise(t)
    \/ \E t \in Tasks : Unwind(t)
    \/ \E t \in Tasks : Cancel(t)
    \/ \E t \in Tasks : NewTask(t)

Spec == Init /\ [][Next]_vars

(***************************************************************************)
(* The registry on its own: any sequence of register_dependency and        *)
(* get_dependency calls, from the empty registry, with no dispatch made.   *)
(***************************************************************************)
Undispatched ==
    UNCHANGED <<ctx, taskCache, stack, exc, nextId, last, injected, scopes>>

RegisterDependency(name, factory) ==
    /\ Len(history) < MaxRegistrations
    /\ registry' = register_dependency(registry, name, factory)
    /\ history' = Append(history, Registration(name, factory))
    /\ looked' = NoLookup
    /\ UNCHANGED <<middleware, ran, middlewares, changed, executed>>
    /\ Undispatched

GetDependency(name) ==
    /\ looked' = [name |-> name, result |-> get_dependency(registry, name)]
    /\ UNCHANGED <<registry, history, middleware, ran, middlewares, changed, executed>>
    /\ Undispatched

InitRegistry ==
    /\ NoDispatches
    /\ NoMiddlewares
    /\ registry = Empty
    /\ history = << >>
    /\ looked = NoLookup

NextRegistry ==
    \/ \E name \in RegisteredNames, factory \in RegisteredFactories :
         RegisterDependency(name, factory)
    \/ \E name \in LookupNames : GetDependency(name)

SpecRegistry == InitRegistry /\ [][NextRegistry]_vars

(***************************************************************************)
(* Middleware entries on their own: an entry is constructed, and           *)
(* should_run is asked of it for an event and a namespace.                 *)
(***************************************************************************)
Construct(events, namespace, flag) ==
    /\ middleware' = [built |-> TRUE, events |-> events, namespace |-> namespace,
                      flag |-> flag, entry |-> BaseMiddleware(events, namespace, flag)]
    /\ ran' = NoRun
    /\ UNCHANGED <<registry, history, looked, middlewares, changed, executed>>
    /\ Undispatched

ShouldRun(event, namespace) ==
    /\ middleware.built
    /\ ran' = [event |-> event, namespace |-> namespace,
               result |-> should_run(middleware.entry, event, namespace)]
    /\ UNCHANGED <<middleware, registry, history, looked, middlewares, changed, executed>>
    /\ Undispatched

InitMiddleware ==
    /\ NoDispatches
    /\ NoMiddlewares
    /\ registry = Empty
    /\ history = << >>
    /\ looked = NoLookup

NextMiddleware ==
    \/ \E events \in EventsArgs, namespace \in {"None", "/test"}, flag \in FlagArgs :
         Construct(events, namespace, flag)
    \/ \E event \in EventNames \cup {"event3"}, namespace \in Namespaces :
         ShouldRun(event, namespace)

SpecMiddleware == InitMiddleware /\ [][NextMiddleware]_vars

(***************************************************************************)
(* A middleware chain on its own: entries are added and removed, and       *)
(* execute is called for an event, a namespace and a handler.              *)
(***************************************************************************)
AddMiddleware(m) ==
    /\ Len(middlewares) < MaxChain
    /\ m \notin Members(middlewares)
    /\ middlewares' = add_middleware(middlewares, m)
    /\ changed' = [op |-> "add", entry |-> m.name, before |-> middlewares, raised |-> FALSE]
    /\ executed' = NoExecution
    /\ UNCHANGED <<middleware, ran, registry, history, looked>>
    /\ Undispatched

RemoveMiddleware(m) ==
    /\ middlewares' = remove_middleware(middlewares, m)
    /\ changed' = [op |-> "remove", entry |-> m.name, before |-> middlewares,
                   raised |-> FALSE]
    /\ executed' = NoExecution
    /\ UNCHANGED <<middleware, ran, registry, history, looked>>
    /\ Undispatched

Execute(event, namespace, handler) ==
    /\ executed' = execute(middlewares, event, "test_sid", <<"test_data">>, handler, namespace)
    /\ UNCHANGED <<middlewares, changed>>
    /\ UNCHANGED <<middleware, ran, registry, history, looked>>
    /\ Undispatched

NextChain ==
    \/ \E m \in Entries : AddMiddleware(m)
    \/ \E m \in Entries : RemoveMiddleware(m)
    \/ \E event \in EventNames \cup {"event3"}, namespace \in Namespaces,
          handler \in [async : BOOLEAN, raises : BOOLEAN] :
             Execute(event, namespace, handler)

SpecChain == InitMiddleware /\ [][NextChain]_vars

(***************************************************************************)
(* DependencyContext objects used on their own, by code of task t1 in its  *)
(* context: a = DependencyContext(socket_id, environ, auth, event, server) *)
(* and b = DependencyContext(socket_id, auth, reason, data, event), each   *)
(* entered and exited any number of times, in any order, every exit after  *)
(* an enter of the same object.                                            *)
(***************************************************************************)
MaxEnters == 3

\* The loop of __exit__ from token i down: "token.var.reset(token)".
\* ContextVar.reset raises RuntimeError for a token that a reset has used
\* before, and nothing in __exit__ catches it.
RECURSIVE ResetFrom(_, _, _, _, _)
ResetFrom(i, c, k, tokens, used) ==
    IF i < 1 THEN [ctx |-> c, used |-> used, err |-> ""]
    ELSE IF i \in used
    THEN [ctx |-> c, used |-> used,
          err |-> "RuntimeError: Token has already been used once"]
    ELSE ResetFrom(i - 1, ContextVarReset(c, k, tokens[i]), k, tokens, used \cup {i})

\* o.__enter__(): the tokens are appended to o._tokens, which __init__
\* created empty and nothing ever empties.
EnterScope(o) ==
    /\ scopes.entered < MaxEnters
    /\ LET args == IF o = "a" THEN ConnectWithAuth ELSE MessageWithAuth
           e == EnterFrom(1, ctx, "t1", args, scopes.entered + 1, scopes.objs[o].tokens)
       IN /\ ctx' = e.ctx
          /\ scopes' = [scopes EXCEPT !.objs[o].tokens = e.tokens,
                                      !.objs[o].open = @ + 1,
                                      !.entered = @ + 1,
                                      !.err = ""]
    /\ UNCHANGED <<taskCache, stack, exc, nextId, last, injected, registry, history,
                   looked, middleware, ran, middlewares, changed, executed>>

\* o.__exit__(None, None, None)
ExitScope(o) ==
    /\ scopes.objs[o].open > 0
    /\ LET obj == scopes.objs[o]
           r == ResetFrom(Len(obj.tokens), ctx, "t1", obj.tokens, obj.used)
       IN /\ ctx' = r.ctx
          /\ scopes' = [scopes EXCEPT !.objs[o].used = r.used,
                                      !.objs[o].open = @ - 1,
                                      !.err = r.err]
    /\ UNCHANGED <<taskCache, stack, exc, nextId, last, injected, registry, history,
                   looked, middleware, ran, middlewares, changed, executed>>

NextScopes ==
    \/ \E o \in DOMAIN scopes.objs : EnterScope(o)
    \/ \E o \in DOMAIN scopes.objs : ExitScope(o)

SpecScopes == InitMiddleware /\ [][NextScopes]_vars

(***************************************************************************)
(* What the properties below look at: every run_with_context call that is  *)
(* in flight (a run frame of some task) or has finished in the latest step. *)
(***************************************************************************)
Seen(r, t, sync, done) ==
    [d |-> r.d, task |-> t, func |-> r.func, parent |-> r.parent, args |-> r.args,
     explicit |-> r.explicit, calls |-> r.calls, ucalls |-> r.ucalls, log |-> r.log,
     called |-> r.called, before |-> r.before, sync |-> sync, done |-> done]

RunFrames(t) == {stack[t][i] : i \in {j \in 1..Len(stack[t]) : stack[t][j].kind = "run"}}

InFlight == UNION {{Seen(fr, t, FALSE, FALSE) : fr \in RunFrames(t)} : t \in Tasks}

Observed ==
    InFlight \cup (IF last.d # 0 THEN {Seen(last, last.task, last.sync, TRUE)} ELSE {})

\* The deliveries of r made to a parameter declared with Depends(f, use_cache)
\* by invoking f or from the cache.
Refs(r, f, use_cache) ==
    {i \in 1..Len(r.log) :
        /\ r.log[i].how \in {"call", "cache"}
        /\ r.log[i].param.dflt = Depends(f, use_cache)}

\* C1: during one dispatch of an asynchronous handler, every factory is
\* invoked at most once on behalf of all the Depends(factory, use_cache=True)
\* parameters that reference it, directly or through other factories, and all
\* those parameters are bound to the same result.
C1_AsyncCachedFactoryOnce ==
    \A r \in Observed : ~r.sync =>
        \A f \in Factories :
            /\ r.calls[f] <= 1
            /\ \A i, j \in Refs(r, f, TRUE) : r.log[i].val = r.log[j].val

\* h_fan has returned: get_config reached it directly and through
\* get_user_service and get_session, get_database directly and through
\* get_user_service, and each was invoked once in this dispatch.
C1_Witness ==
    /\ last.func = "h_fan"
    /\ last.outcome = "returned"
    /\ last.calls["get_config"] = 1
    /\ last.calls["get_database"] = 1
    /\ Cardinality(Refs(last, "get_config", TRUE)) = 3
    /\ Cardinality(Refs(last, "get_database", TRUE)) = 2

\* C2: the same for a synchronous handler, resolved by
\* _resolve_sync_dependencies: every factory is invoked at most once for its
\* use_cache=True references and they all receive the same result.
C2_SyncCachedFactoryOnce ==
    \A r \in Observed : r.sync =>
        \A f \in Factories :
            /\ r.calls[f] <= 1
            /\ \A i, j \in Refs(r, f, TRUE) : r.log[i].val = r.log[j].val

\* C3: the dependency cache belongs to one dispatch and is gone when the
\* dispatch ends: in every dispatch that uses the cache, each value a handler
\* or factory receives from a factory was computed during that dispatch, and
\* a dispatch whose handler is invoked has invoked each cache-eligible factory
\* it references exactly once.
C3_CacheOwnedByOneDispatch ==
    \A r \in Observed : ~r.sync =>
        /\ \A i \in 1..Len(r.log) :
              r.log[i].val.tag = "result" => r.log[i].val.by = r.d
        /\ \A f \in Factories :
              r.called /\ Refs(r, f, TRUE) # {} => r.calls[f] = 1

\* C4: a Depends(factory, use_cache=False) parameter is bound, each time it
\* is resolved, to the result of a new invocation of the factory made for it
\* (also when the cache holds a result of that factory), and no such result
\* is ever in a dependency cache.
C4_UncachedInvokedPerReference ==
    /\ \A r \in Observed : \A f \in Factories :
          /\ \A i \in Refs(r, f, FALSE) :
                /\ r.log[i].how = "call"
                /\ r.log[i].val.by = r.d
                /\ ~r.log[i].val.uc
          /\ \A i, j \in Refs(r, f, FALSE) : i # j => r.log[i].val # r.log[j].val
          /\ r.called => r.ucalls[f] = Cardinality(Refs(r, f, FALSE))
    /\ \A t \in Tasks : \A key \in DOMAIN taskCache[t].map : taskCache[t].map[key].uc

\* h_mixed has returned: its parameters a and c (use_cache=False) each had
\* get_config invoked, c while the cache already held the result made for b.
C4_Witness ==
    /\ last.func = "h_mixed"
    /\ last.outcome = "returned"
    /\ last.ucalls["get_config"] = 2
    /\ last.calls["get_config"] = 1
    /\ last.log[2].how = "call" /\ last.log[3].how = "call" /\ last.log[4].how = "cache"
    /\ "get_config" \in DOMAIN taskCache[last.task].map

\* C5: whatever way a run_with_context call ends, for an asynchronous or a
\* synchronous handler, the seven context variables of the caller's context
\* hold afterwards what they held before the call; a task none of whose calls
\* is in flight reads every variable as absent.
C5_ContextRestoredAfterDispatch ==
    /\ last.d # 0 => last.after = last.before
    /\ \A t \in Tasks : stack[t] = << >> => ctx[t] = RootCtx

\* A dispatch that had set five variables ended because resolution raised.
C5_Witness ==
    /\ last.func = "h_disconnect"
    /\ last.args = ConnectWithAuth
    /\ last.err = "ValueError: Reason is only available in disconnect handler"
    /\ Len(stack[last.task]) = 0

\* The value a context variable has inside the scopes of stack s: the one
\* passed to the innermost scope that passed one.
ScopeValue(s, var) ==
    LET setters == {i \in 1..Len(s) : s[i].kind = "run" /\ s[i].args[var] # "None"}
    IN IF setters = {} THEN None
       ELSE LET i == CHOOSE x \in setters : \A y \in setters : y <= x
            IN Passed(s[i].args[var], s[i].d)

\* C6: with DependencyContext scopes entered and exited in nested order in
\* one context, every variable reads as the value passed to the innermost
\* open scope that passed one (None when no open scope did): leaving a
\* scope, by return or by exception, gives the enclosing scope its own values
\* back and leaves alone what the scope had not set.
C6_NestedScopesRestore ==
    \A t \in Tasks : \A var \in VarNames : ctx[t][var] = ScopeValue(stack[t], var)

\* An inner scope that had shadowed the enclosing scope's socket id was left
\* by an exception, and the enclosing scope is still open.
C6_Witness ==
    /\ last.d # 0 /\ ~last.sync /\ last.parent # 0
    /\ last.outcome = "raised"
    /\ stack[last.task] # << >>
    /\ last.args["socket_id"] = "s2"
    /\ stack[last.task][1].args["socket_id"] = "s1"
    /\ last.args["auth"] = "None"
    /\ stack[last.task][1].args["auth"] = "a1"

\* C7: with dispatches in flight in different tasks, interleaved at awaits:
\* an ambient value bound to a parameter of a handler or factory was passed
\* to a run_with_context call of the same task (to the dispatch's own call
\* when that call is not nested in another), and a step of one task leaves
\* the context variables of the other tasks' dispatches as they were.
C7_ConcurrentDispatchesIsolated ==
    /\ [](\A r \in Observed : \A i \in 1..Len(r.log) :
             r.log[i].how = "ambient" =>
                /\ r.log[i].val.by \in {r.d} \cup {fr.d : fr \in RunFrames(r.task)}
                /\ r.parent = 0 => r.log[i].val.by = r.d)
    /\ [][\A t \in Tasks :
             stack[t] # << >> /\ stack'[t] = stack[t] => ctx'[t] = ctx[t]]_vars

\* Both tasks have a dispatch in flight, for different socket ids; the first
\* one has resolved its socket id after an await in get_database, the second
\* one is at that await.
C7_Witness ==
    /\ Len(stack["t1"]) = 1 /\ Len(stack["t2"]) = 2
    /\ stack["t1"][1].func = "h_connect" /\ stack["t1"][1].d = 1
    /\ stack["t1"][1].args["socket_id"] = "s1"
    /\ \E i \in 1..Len(stack["t1"][1].log) :
          /\ stack["t1"][1].log[i].how = "ambient"
          /\ stack["t1"][1].log[i].val.v = "s1"
    /\ stack["t2"][1].args["socket_id"] = "s2"
    /\ stack["t2"][2].kind = "resolve" /\ stack["t2"][2].pc = "body"

\* C8: a dispatch cancelled at an await has left its scope: its frame is
\* gone and every context variable holds what it held before the dispatch.
C8_CancelledDispatchLeavesScope ==
    last.err = "CancelledError" =>
        /\ last.after = last.before
        /\ ctx[last.task] = last.before
        /\ \A fr \in RunFrames(last.task) : fr.d # last.d

\* A dispatch that had set five variables was cancelled while get_database
\* was awaited, before its handler had been invoked.
C8_Witness ==
    /\ last.err = "CancelledError"
    /\ last.func = "h_connect"
    /\ last.args = ConnectWithAuth
    /\ ~last.called
    /\ last.calls["get_database"] = 1

\* The ambient value of a variable inside dispatch r.
AmbientOf(r, var) ==
    IF r.args[var] # "None" THEN Passed(r.args[var], r.d) ELSE r.before[var]

\* Handler r.func has a parameter, not supplied explicitly, annotated Auth
\* while the ambient auth is absent and the event is not "connect", or
\* annotated Reason while the ambient reason is absent and the event is not
\* "disconnect".
Unavailable(r) ==
    \E i \in 1..Len(Sig[r.func].params) :
        LET p == Sig[r.func].params[i] IN
        /\ p.name \notin DOMAIN r.explicit
        /\ \/ /\ p.ann = "Auth"
              /\ AmbientOf(r, "auth") = None
              /\ AmbientOf(r, "event").v # "connect"
           \/ /\ p.ann = "Reason"
              /\ AmbientOf(r, "reason") = None
              /\ AmbientOf(r, "event").v # "disconnect"

ContextErrors ==
    {"ValueError: Auth is only available in connect handler",
     "ValueError: Reason is only available in disconnect handler"}

\* C9: a dispatch of an asynchronous handler with such a parameter never
\* invokes the handler, and ends by raising out of run_with_context.
C9_AsyncUnavailableRaises ==
    /\ \A r \in InFlight : Unavailable(r) => ~r.called
    /\ last.d # 0 /\ ~last.sync /\ Unavailable(last) =>
          ~last.called /\ last.outcome = "raised"

\* h_connect (auth: Auth) was dispatched for a message event without auth.
C9_Witness ==
    /\ last.func = "h_connect"
    /\ last.args = Message
    /\ last.explicit = Empty
    /\ last.err = "ValueError: Auth is only available in connect handler"
    /\ ~last.called

\* C10: a dispatch of a synchronous handler with such a parameter ends with
\* the resolver's context-unavailable error, the handler not invoked.
C10_SyncUnavailableRaises ==
    last.d # 0 /\ last.sync /\ Unavailable(last) =>
        ~last.called /\ last.err \in ContextErrors

\* C11: in every dispatch, a value of type Auth is bound to a parameter (of
\* the handler or of a factory) only while the event is "connect", and a
\* value of type Reason only while the event is "disconnect".
C11_AuthReasonOnlyInTheirEvent ==
    \A r \in Observed : \A i \in 1..Len(r.log) :
        /\ r.log[i].val.tag = "Auth" => AmbientOf(r, "event").v = "connect"
        /\ r.log[i].val.tag = "Reason" => AmbientOf(r, "event").v = "disconnect"

\* The parameters of func, and those among them not supplied explicitly in
\* dispatch r.
Params(func) == {Sig[func].params[i] : i \in 1..Len(Sig[func].params)}
Unsupplied(r) == {p \in Params(r.func) : p.name \notin DOMAIN r.explicit}

ValidationErrors ==
    {"ValueError: no data available", "ValueError: failed to validate payload"}

\* C12: for a handler parameter named in the explicit keyword arguments,
\* the only binding made is of the explicit value: no factory result, cached
\* value, ambient value or validated payload is bound to it (h_fan's users
\* given explicitly, get_user_service is not invoked), the handler is called
\* with the explicit value, and resolution only ever raises a
\* context-unavailable or validation error in a dispatch that has a
\* parameter of that kind not supplied explicitly.
C12_ExplicitArgumentsTakePrecedence ==
    /\ \A r \in Observed : \A name \in DOMAIN r.explicit :
          /\ \A i \in 1..Len(r.log) :
                r.log[i].callee = r.func /\ r.log[i].param.name = name =>
                    r.log[i].how = "explicit" /\ r.log[i].val = r.explicit[name]
          /\ r.func = "h_fan" /\ name = "users" => r.calls["get_user_service"] = 0
    /\ last.d # 0 =>
          /\ last.called => \A name \in DOMAIN last.explicit :
                               last.given[name] = last.explicit[name]
          /\ ~last.called /\ last.err \in ContextErrors =>
                \E p \in Unsupplied(last) : p.ann \in {"Auth", "Reason"}
          /\ ~last.called /\ last.err \in ValidationErrors =>
                \E p \in Unsupplied(last) : p.ann = "Model"

\* h_connect was dispatched for a message event without auth, its auth
\* parameter supplied explicitly: the handler has been called with it.
C12_Witness ==
    /\ last.func = "h_connect"
    /\ last.args = Message
    /\ DOMAIN last.explicit = {"auth"}
    /\ last.outcome = "returned"
    /\ last.given["auth"] = last.explicit["auth"]

\* C13: in a dispatch, asynchronous or synchronous, of a handler with a
\* parameter annotated with a schema model and not supplied explicitly: when
\* the ambient payload is absent or fails validation the dispatch ends with
\* a validation error, the handler not invoked and the context variables
\* restored; otherwise a handler that is invoked receives the validated
\* model.
C13_ModelParameterValidated ==
    \A p \in (IF last.d # 0
              THEN {q \in Unsupplied(last) : q.ann = "Model" /\ q.dflt.kind # "depends"}
              ELSE {}) :
        LET data == AmbientOf(last, "data") IN
        IF data = None \/ ~model_validate(data).ok
        THEN /\ ~last.called
             /\ last.outcome = "raised"
             /\ last.err \in ValidationErrors
             /\ last.after = last.before
        ELSE last.called => last.given[p.name] = model_validate(data).val

\* s_message (msg: Model) was dispatched with a payload that fails
\* validation.
C13_Witness ==
    /\ last.func = "s_message"
    /\ last.args = MessageWithAuth
    /\ last.explicit = Empty
    /\ last.err = "ValueError: failed to validate payload"

\* C14: a handler that is invoked has received, for each of its parameters
\* whose default is a Depends object and that was not supplied explicitly,
\* the result of invoking the factory, annotated or not.
C14_DependsDefaultIsResolved ==
    \A r \in Observed : r.called =>
        \A p \in Unsupplied(r) : p.dflt.kind = "depends" =>
            \E i \in 1..Len(r.log) :
                /\ r.log[i].callee = r.func
                /\ r.log[i].param = p
                /\ r.log[i].how \in {"call", "cache"}
                /\ r.log[i].val.tag = "result"

\* Function f declares, directly or through its factories, a dependency on
\* an asynchronous factory.
HasAsyncDependency(f) ==
    LET Declared(g) == {p.dflt.dep : p \in {q \in Params(g) : /\ q.dflt.kind = "depends"
                                                               /\ callable(q.dflt.dep)}}
        RECURSIVE Closure(_)
        Closure(S) == LET T == S \cup UNION {Declared(g) : g \in S}
                      IN IF T = S THEN S ELSE Closure(T)
    IN \E g \in Closure(Declared(f)) : iscoroutinefunction(g)

AsyncFactories == {f \in Factories : Sig[f].async}

\* C17: a dispatch of a synchronous handler that declares, directly or
\* through synchronous factories, a dependency on an asynchronous factory
\* ends with the unsupported-async-dependency error: no asynchronous factory
\* called, the handler not invoked, the context variables restored.
C17_SyncHandlerWithAsyncFactoryFails ==
    last.d # 0 /\ last.sync /\ HasAsyncDependency(last.func) =>
        /\ last.err = "ValueError: cannot use async dependency in sync handler"
        /\ ~last.called
        /\ \A f \in AsyncFactories : last.calls[f] + last.ucalls[f] = 0
        /\ last.after = last.before

\* C15: a dispatch of a handler with a parameter declared with
\* Depends(name), a factory being registered under name, binds the parameter
\* to a result of the registered factory (unless the dispatch is cancelled
\* or another parameter's resolution raises first).
C15_NamedDependencyResolved ==
    last.d # 0 /\ last.err \notin ContextErrors \cup ValidationErrors \cup {"CancelledError"} =>
        \A p \in {q \in Unsupplied(last) : /\ q.dflt.kind = "depends"
                                            /\ q.dflt.dep \in DOMAIN registry} :
            \E i \in 1..Len(last.log) :
                /\ last.log[i].callee = last.func
                /\ last.log[i].param = p
                /\ last.log[i].val.tag = "result"
                /\ last.log[i].val.v = get_dependency(registry, p.dflt.dep)

\* The factory of the latest register_dependency call in h made under name,
\* "None" when there is none.
LastRegistered(h, name) ==
    LET made == {i \in 1..Len(h) : h[i].name = name}
    IN IF made = {} THEN "None"
       ELSE h[CHOOSE i \in made : \A j \in made : j <= i].factory

\* C16: after any sequence of register_dependency calls, get_dependency of
\* a name is the factory of the latest call made under that name, None for
\* a name never registered (so registering a name changes no other name's
\* lookup), and this is what a get_dependency call returned.
C16_RegistryLookup ==
    /\ \A name \in LookupNames :
          get_dependency(registry, name) = LastRegistered(history, name)
    /\ looked # NoLookup => looked.result = LastRegistered(history, looked.name)

\* A name was registered, then another name, then the first name again with
\* another factory, and the first name has been looked up.
C16_Witness ==
    /\ Len(history) = 3
    /\ history[1].name = history[3].name
    /\ history[1].factory # history[3].factory
    /\ history[2].name # history[1].name
    /\ looked.name = history[1].name
    /\ looked.result = history[3].factory

\* C18: a call of the inject_dependencies wrapper of a synchronous handler
\* that declares, directly or through its factories, a dependency on an
\* asynchronous factory ends with the unsupported-async-dependency error,
\* no asynchronous factory executed and the handler not called.
C18_SyncWrapperWithAsyncFactoryFails ==
    injected # NoInjected /\ HasAsyncDependency(injected.func) =>
        /\ injected.err = "ValueError: cannot use async dependency in sync handler"
        /\ ~injected.called
        /\ \A f \in AsyncFactories : injected.calls[f] + injected.ucalls[f] = 0

\* C19: an entry constructed with an event filter (one name or a list) or
\* with a namespace has global_middleware False, one constructed with
\* neither has it True; events is the set of the names given (empty for no
\* filter, one element for one name), and namespace is None unless given.
C19_EntryAfterConstruction ==
    middleware.built =>
        LET e == middleware.entry
            given == middleware.events
            names == {given.names[i] : i \in 1..Len(given.names)}
        IN /\ given.kind # "none" \/ middleware.namespace # "None" => ~e.global_middleware
           /\ given.kind = "none" /\ middleware.namespace = "None" => e.global_middleware
           /\ given.kind = "none" => e.events = {}
           /\ given.kind = "str" => e.events = {given.names[1]} /\ Cardinality(e.events) = 1
           /\ given.kind = "list" => e.events = names /\ Cardinality(e.events) <= Len(given.names)
           /\ e.namespace = middleware.namespace

\* An entry was constructed from a list that names one event twice and with
\* a namespace, the flag passed as True.
C19_Witness ==
    /\ middleware.built
    /\ middleware.events = [kind |-> "list", names |-> <<"event1", "event1">>]
    /\ middleware.namespace = "/test"
    /\ middleware.flag = "True"
    /\ middleware.entry.events = {"event1"}
    /\ ~middleware.entry.global_middleware

\* C20: should_run(event, namespace) of an entry constructed without
\* filters is true; of an entry constructed with filters it is true exactly
\* when the namespace given at construction, if any, is the one asked about
\* and the events given at construction, if any, include the event.
C20_ShouldRun ==
    ran # NoRun =>
        LET given == middleware.events
            names == {given.names[i] : i \in 1..Len(given.names)}
        IN IF middleware.entry.global_middleware
           THEN ran.result
           ELSE ran.result <=>
                   /\ middleware.namespace = "None" \/ middleware.namespace = ran.namespace
                   /\ given.kind = "none" \/ ran.event \in names

\* An entry with both filters was asked about an event of its filter in
\* another namespace, and does not run.
C20_Witness ==
    /\ middleware.events = [kind |-> "list", names |-> <<"event1">>]
    /\ middleware.namespace = "/test"
    /\ ran.event = "event1"
    /\ ran.namespace = "/other"
    /\ ~ran.result

(***************************************************************************)
(* The middleware chain: what an execute call did is read from its record  *)
(* of hook calls (log), handler calls (calls) and result.                  *)
(***************************************************************************)
HookCalls(hook) == SelectSeq(executed.log, LAMBDA c : c.hook = hook)

\* The entries of the chain that should run for the executed event.
ShouldRunNames ==
    {m.name : m \in {x \in Members(middlewares) :
                        should_run(x.filter, executed.event, executed.namespace)}}

RejectedBy == {c.entry : c \in {x \in Members(executed.log) :
                  x.hook = "before_event" /\ Instance(x.entry).before_event = "raise"}}

\* C21: when no before-hook rejects, every selected entry's before-hook is
\* called once, the first with the payload given to execute and each next
\* one with what the one before it returned; the handler, synchronous or
\* asynchronous, is called exactly once with what the last one returned;
\* and when the handler returns, every selected entry's after-hook is called
\* once, the first with the handler's response and each next one with what
\* the one before it returned, and execute returns what the last returned.
C21_HooksThreadPayloadAndResponse ==
    (executed # NoExecution /\ RejectedBy = {}) =>
        LET b == HookCalls("before_event")
            a == HookCalls("after_event")
            out(c) == IF Instance(c.entry).before_event = "modify"
                      THEN Append(c.arg, c.entry) ELSE c.arg
            back(c) == IF Instance(c.entry).after_event = "modify"
                       THEN [c.arg EXCEPT !.trail = Append(@, c.entry)] ELSE c.arg
            payload == IF b = << >> THEN executed.data ELSE out(b[Len(b)])
            response == [received |-> payload, trail |-> << >>]
        IN /\ {b[i].entry : i \in 1..Len(b)} = ShouldRunNames
           /\ Len(b) = Cardinality(ShouldRunNames)
           /\ b # << >> => b[1].arg = executed.data
           /\ \A i \in 2..Len(b) : b[i].arg = out(b[i - 1])
           /\ Len(executed.calls) = 1
           /\ executed.calls[1][Len(executed.calls[1])] = payload
           /\ ~executed.handler.raises =>
                 /\ executed.outcome = "returned"
                 /\ {a[i].entry : i \in 1..Len(a)} = ShouldRunNames
                 /\ Len(a) = Cardinality(ShouldRunNames)
                 /\ a # << >> => a[1].arg = response
                 /\ \A i \in 2..Len(a) : a[i].arg = back(a[i - 1])
                 /\ executed.result = IF a = << >> THEN response ELSE back(a[Len(a)])

\* Two entries changed the payload in turn before an asynchronous handler
\* got it, and one of them changed the response.
C21_Witness ==
    /\ executed.handler = [async |-> TRUE, raises |-> FALSE]
    /\ executed.calls = <<<<"test_sid", <<"test_data", "TestMiddleware", "FilteredMiddleware">>>>>>
    /\ executed.result = [received |-> <<"test_data", "TestMiddleware", "FilteredMiddleware">>,
                          trail |-> <<"TestMiddleware">>]

\* C22: an entry of the chain whose should_run(event, namespace) is false
\* has no hook called by execute, and neither the payload the handler gets
\* nor the result carries a change of its; an entry whose should_run is true
\* has its before-hook called, unless an earlier entry rejected the event.
C22_FilteredEntryRunsOnlyForItsEvents ==
    executed # NoExecution =>
        \A m \in Members(middlewares) :
            LET mine == SelectSeq(executed.log, LAMBDA c : c.entry = m.name) IN
            IF should_run(m.filter, executed.event, executed.namespace)
            THEN RejectedBy = {} =>
                    Len(SelectSeq(mine, LAMBDA c : c.hook = "before_event")) = 1
            ELSE /\ mine = << >>
                 /\ \A i \in 1..Len(executed.calls) :
                       m.name \notin Members(executed.calls[i][Len(executed.calls[i])])
                 /\ m.name \notin Members(executed.result.trail)

\* The entry filtered to event1 did not run for event2: the handler got the
\* payload as given.
C22_Witness ==
    /\ Len(middlewares) = 1
    /\ middlewares[1].name = "FilteredMiddleware"
    /\ executed.event = "event2"
    /\ executed.log = << >>
    /\ executed.calls = <<<<"test_sid", <<"test_data">>>>>>
    /\ executed.outcome = "returned"

\* C23: when a before-hook raises a rejection, the handler is not called,
\* no after-hook is called, no before-hook is called after the one that
\* raised, and the exception hooks called are hooks of entries whose
\* before-hook had been called.
C23_RejectionShortCircuits ==
    (executed # NoExecution /\ RejectedBy # {}) =>
        LET b == HookCalls("before_event")
            x == HookCalls("handle_exception")
        IN /\ executed.calls = << >>
           /\ HookCalls("after_event") = << >>
           /\ b[Len(b)].entry \in RejectedBy
           /\ \A i \in 1..(Len(b) - 1) : b[i].entry \notin RejectedBy
           /\ {x[i].entry : i \in 1..Len(x)} \subseteq {b[i].entry : i \in 1..Len(b)}
           /\ \A i \in 1..Len(x) : x[i].arg = <<Rejection, executed.data>>

\* The second of three selected entries rejected the event: the third, whose
\* exception hook would have returned a fallback, never saw it.
C23_Witness ==
    /\ Len(executed.selected) = 3
    /\ executed.selected[1].name = "TestMiddleware"
    /\ executed.selected[2].name = "AuthCheckMiddleware"
    /\ executed.selected[3].name = "FallbackMiddleware"
    /\ executed.outcome = "raised"
    /\ executed.err = Rejection
    /\ Len(HookCalls("handle_exception")) = 2

\* C24: a chain no call was made on is empty; after add_middleware the
\* entry is a member and the others are who they were; after
\* remove_middleware the entry is not a member, the others are who they
\* were, no error was raised and, if the entry was not registered, the list
\* is as it was; and a member stays a member through every step other than
\* its removal.
C24_AddAndRemove ==
    /\ [] LET was == {m.name : m \in Members(changed.before)}
              now == {m.name : m \in Members(middlewares)}
          IN /\ changed = NoChange => middlewares = << >>
             /\ changed.op = "add" => now = was \cup {changed.entry}
             /\ changed.op = "remove" =>
                   /\ now = was \ {changed.entry}
                   /\ ~changed.raised
                   /\ changed.entry \notin was => middlewares = changed.before
    /\ [][\A m \in Entries :
             (m \in Members(middlewares) /\ m \notin Members(middlewares'))
                => changed' = [op |-> "remove", entry |-> m.name,
                               before |-> middlewares, raised |-> FALSE]]_vars

\* The first of two registered entries was removed, and the other stayed.
C24_Witness ==
    /\ changed.op = "remove"
    /\ Len(changed.before) = 2
    /\ changed.entry = changed.before[1].name
    /\ middlewares = <<changed.before[2]>>

\* C25: when every entry of the chain has the default hooks (an empty chain
\* included), the handler is called exactly once with the payload given to
\* execute, execute returns what the handler returned, and an exception of
\* the handler is raised by execute unchanged.
C25_DefaultHooksAreTransparent ==
    (/\ executed # NoExecution
     /\ \A m \in Members(middlewares) :
           /\ m.before_event = "default"
           /\ m.after_event = "default"
           /\ m.handle_exception = "raise") =>
        /\ Len(executed.calls) = 1
        /\ executed.calls[1][Len(executed.calls[1])] = executed.data
        /\ \A i \in 1..Len(executed.log) :
              /\ executed.log[i].hook = "before_event" => executed.log[i].arg = executed.data
              /\ executed.log[i].hook = "after_event" =>
                    executed.log[i].arg = [received |-> executed.data, trail |-> << >>]
        /\ IF executed.handler.raises
           THEN executed.outcome = "raised" /\ executed.err = HandlerError
           ELSE /\ executed.outcome = "returned"
                /\ executed.result = [received |-> executed.data, trail |-> << >>]

\* The handler raised under two entries with the default hooks, both of
\* whose exception hooks were called.
C25_Witness ==
    /\ Len(middlewares) = 2
    /\ {middlewares[1].name, middlewares[2].name} = {"BaseMiddleware", "SyncMiddleware"}
    /\ executed.handler.raises
    /\ executed.err = HandlerError
    /\ Len(HookCalls("handle_exception")) = 2

\* C26: when the call of a factory raises during a dispatch, the
\* run_with_context call raises that exception, the handler is not
\* invoked, the context variables hold what they held before the call, and
\* no dependency cache holds a result of the invocation that raised (nor,
\* for a factory only ever referenced with use_cache=True, any result of it
\* in the cache of the dispatch's task).
C26_FactoryErrorPropagates ==
    (last.d # 0 /\ last.failed # NoFailure) =>
        /\ last.outcome = "raised"
        /\ last.err = "FactoryError"
        /\ ~last.called
        /\ last.after = last.before
        /\ \A fr \in RunFrames(last.task) : fr.d # last.d
        /\ \A t \in Tasks : \A key \in DOMAIN taskCache[t].map :
              LET held == taskCache[t].map[key] IN
              ~(held.v = last.failed.f /\ held.by = last.d /\ held.n = last.failed.n)
        /\ (\A g \in DOMAIN Sig : \A i \in 1..Len(Sig[g].params) :
               Sig[g].params[i].dflt.dep = last.failed.f
                  => Sig[g].params[i].dflt.use_cache)
              => last.failed.f \notin DOMAIN taskCache[last.task].map

\* get_remote returned and was cached, then the call of get_broken raised.
C26_Witness ==
    /\ last.func = "h_broken"
    /\ last.failed = [f |-> "get_broken", n |-> 1]
    /\ last.calls["get_remote"] = 1
    /\ "get_remote" \in DOMAIN taskCache[last.task].map
    /\ "get_broken" \notin DOMAIN taskCache[last.task].map

\* C27: a dispatch nested in another dispatch's handler never sees the
\* enclosing dispatch's ambient values: every ambient value bound to a
\* parameter of its handler or of its factories was passed to its own
\* run_with_context call, so a key it passed None for reads as absent.
C27_NestedDispatchReadsOwnValues ==
    \A r \in Observed : r.parent # 0 =>
        \A i \in 1..Len(r.log) :
            r.log[i].how = "ambient" => r.log[i].val.by = r.d

\* C28: the parameters of a factory are resolved with no explicit
\* arguments: no parameter of a factory is bound to an explicit argument of
\* the handler's, also when it has the name of one, and a parameter of a
\* factory annotated with an ambient type is bound to the value the context
\* variable has in the dispatch in which the factory is resolved.
C28_FactoryParametersResolvedAlone ==
    \A r \in Observed : \A i \in 1..Len(r.log) :
        LET b == r.log[i] IN
        b.callee \in Factories =>
            /\ b.how # "explicit"
            /\ b.val.tag # "explicit"
            /\ b.param.name \in DOMAIN r.explicit => b.how \in {"ambient", "call", "cache"}
            /\ b.param.ann = "SocketID" =>
                  /\ b.how = "ambient"
                  /\ b.val = Wrap("SocketID", AmbientOf(r, "socket_id"))

\* h_fan was called with cfg given explicitly: get_session, which has a
\* parameter cfg too, got the result of get_config, and the socket id of
\* the dispatch.
C28_Witness ==
    /\ last.func = "h_fan"
    /\ last.called
    /\ DOMAIN last.explicit = {"cfg"}
    /\ last.given["cfg"].tag = "explicit"
    /\ \E i, j \in 1..Len(last.log) :
          /\ last.log[i].callee = "get_session"
          /\ last.log[i].param.name = "cfg"
          /\ last.log[i].val.v = "get_config"
          /\ last.log[j].callee = "get_session"
          /\ last.log[j].param.name = "sid"
          /\ last.log[j].val.v = "s1"

\* The parameters the resolvers have a branch for: those annotated with an
\* ambient type, a server type or a schema model, and those whose default
\* is a Depends object.
Classified(p) ==
    \/ p.ann \in {"SocketID", "Environ", "Auth", "Reason", "Data", "Event"}
    \/ p.ann \in {"AsyncServer", "Server", "Model"}
    \/ p.dflt.kind = "depends"

\* C29: a parameter with no annotation and no Depends default, or with an
\* annotation that is no ambient type, server type or schema model, gets no
\* binding unless it is supplied explicitly; the arguments a handler is
\* called with are named after explicit arguments and classified parameters
\* only; and a dispatch of a handler all of whose parameters are such gets
\* no error from resolution: the handler is called.
C29_UnrecognizedParametersOmitted ==
    /\ \A r \in Observed : \A i \in 1..Len(r.log) :
          ~Classified(r.log[i].param) => r.log[i].how = "explicit"
    /\ (last.d # 0 /\ last.called) =>
          /\ DOMAIN last.given \subseteq
                DOMAIN last.explicit \cup {p.name : p \in {q \in Params(last.func) : Classified(q)}}
          /\ \A p \in Unsupplied(last) : ~Classified(p) => p.name \notin DOMAIN last.given
    /\ (last.d # 0 /\ \A p \in Params(last.func) : ~Classified(p)) =>
          /\ last.called
          /\ last.err \in {"", "HandlerError", "CancelledError"}

\* h_message was called without a binding for extra (no annotation) and
\* opts (an annotation nothing is known of).
C29_Witness ==
    /\ last.func = "h_message"
    /\ last.called
    /\ last.outcome = "returned"
    /\ DOMAIN last.given = {"event", "data", "sio", "msg"}
    /\ last.explicit = Empty

\* C30: a dispatch of a synchronous handler is never suspended: between
\* steps no task holds a frame of one and the context its scope was
\* entered in holds no value, and the step that ends one is the step that
\* started it, which leaves every task's frames and context variables as
\* they were.
C30_SyncDispatchIsAtomic ==
    /\ [] /\ \A t \in Tasks : \A fr \in RunFrames(t) : iscoroutinefunction(fr.func)
          /\ ctx["copy"] = RootCtx
    /\ [][(last'.d # 0 /\ ~iscoroutinefunction(last'.func)) =>
             /\ last'.sync
             /\ last'.d = nextId
             /\ nextId' = nextId + 1
             /\ stack' = stack
             /\ \A t \in Tasks : ctx'[t] = ctx[t]]_vars

\* A synchronous handler that resolves a factory was dispatched and called
\* while a dispatch of the other task was suspended in its scope.
C30_Witness ==
    /\ last.sync
    /\ last.func = "s_fan"
    /\ last.called
    /\ last.args = Message
    /\ \E t \in Tasks \ {last.task} :
          /\ stack[t] # << >>
          /\ ctx[t]["socket_id"].v = "s2"

\* C31: a call of the inject_dependencies wrapper of a synchronous handler
\* whose factories are all synchronous, made by a thread that runs no event
\* loop or by code running inside an event loop, ends with no error and
\* with the handler called with its resolved dependencies.
C31_SyncWrapperCallableAnywhere ==
    injected # NoInjected /\ ~HasAsyncDependency(injected.func) =>
        /\ injected.err = ""
        /\ injected.called

(***************************************************************************)
(* Dispatch under the event loop's scheduling: a task suspended at "await  *)
(* dep.dependency(...)" is resumed when the factory's coroutine ends, by   *)
(* its return or by its exception.                                         *)
(***************************************************************************)
SpecFair ==
    Spec /\ \A t \in Tasks : WF_vars(FactoryReturn(t) \/ FactoryRaise(t))

\* C32: the factories of every handler forming a finite acyclic graph, a
\* dispatch that is resolving its handler's dependencies eventually calls
\* the handler or ends by raising, and a synchronous dispatch has done one
\* or the other when its step is over.
C32_ResolutionTerminates ==
    /\ [](last.d # 0 /\ last.sync => last.called \/ last.outcome = "raised")
    /\ \A t \in Tasks : \A d \in 1..MaxDispatches :
          (\E i \in 1..Len(stack[t]) :
              /\ stack[t][i].kind = "run"
              /\ stack[t][i].d = d
              /\ stack[t][i].pc = "resolving")
          ~> \/ \E i \in 1..Len(stack[t]) :
                   /\ stack[t][i].kind = "run"
                   /\ stack[t][i].d = d
                   /\ stack[t][i].called
             \/ last.d = d /\ last.outcome = "raised"

\* h_fan was called after its resolver had awaited get_database and
\* get_user_service and called get_config and get_session.
C32_Witness ==
    \E t \in Tasks :
        /\ stack[t] # << >>
        /\ Top(stack[t]).kind = "run"
        /\ Top(stack[t]).func = "h_fan"
        /\ Top(stack[t]).called
        /\ Top(stack[t]).explicit = Empty
        /\ \A f \in {"get_database", "get_user_service", "get_config", "get_session"} :
              Invocations(Top(stack[t]), f) = 1

\* C33: the resolution of a handler whose factories declare each other
\* (get_a declares Depends(get_b), get_b declares Depends(get_a)) is ended
\* by the resolver, with an error or a value, after resolving each factory
\* of the cycle a bounded number of times: no dispatch nests resolver calls
\* until the interpreter's stack is used up.
C33_CyclicResolutionEnds ==
    last.d # 0 => last.err # "RecursionError"

\* C34: for every handler whose factories are all synchronous and in every
\* ambient context a task can be in, _resolve_sync_dependencies and
\* resolve_dependencies (run to its end in a task that has no cache yet)
\* followed by the call of the handler end alike: with the same error or
\* both without one, with the same resolved mapping when there is no error,
\* and with each factory invoked the same number of times.
C34_ResolversAgree ==
    \A t \in Tasks : \A h \in {g \in Handlers : ~HasAsyncDependency(g)} :
        LET r == _resolve_sync_dependencies(h, Empty, ctx[t], 1)
            e == RunToEnd([ctx |-> [ctx EXCEPT !["copy"] = ctx[t]],
                           cache |-> GetOrCreateCache(NoCache),
                           stack |-> <<RunFrame(h, 1, 0, Nothing, Empty, << >>, ctx[t]),
                                       ResolveFrame(h, Empty)>>,
                           exc |-> "", last |-> NoDispatch], "copy")
            a == IF e.last # NoDispatch THEN e.last ELSE Top(e.stack)
            raised == IF r.err # "" THEN r.err
                      ELSE IF MissingArgument(h, r.resolved) THEN "TypeError" ELSE ""
        IN /\ raised = (IF e.last # NoDispatch THEN e.last.err ELSE "")
           /\ raised = "" => r.resolved = a.given
           /\ \A f \in Factories : Invocations(r, f) = Invocations(a, f)

\* C35: a parameter annotated SocketID, Environ, Data, Event or a server
\* type, or Auth while the event is "connect", or Reason while the event is
\* "disconnect", and not supplied explicitly, is bound exactly when its
\* context variable holds a value, and then to that value: nothing is ever
\* bound to a missing value, a handler that is called has the parameter
\* among its arguments exactly when the variable is set, and resolution
\* raises its context error only for Auth outside "connect" and Reason
\* outside "disconnect".
C35_AmbientBoundExactlyWhenSet ==
    LET VarOf(ann) == CASE ann = "SocketID" -> "socket_id"
                        [] ann = "Environ" -> "environ"
                        [] ann = "Auth" -> "auth"
                        [] ann = "Reason" -> "reason"
                        [] ann = "Data" -> "data"
                        [] ann = "Event" -> "event"
                        [] ann \in {"AsyncServer", "Server"} -> "server"
        InScope(r, p) ==
            /\ p.ann \in {"SocketID", "Environ", "Auth", "Reason", "Data", "Event",
                          "AsyncServer", "Server"}
            /\ p.ann = "Auth" => AmbientOf(r, "event").v = "connect"
            /\ p.ann = "Reason" => AmbientOf(r, "event").v = "disconnect"
    IN /\ \A r \in Observed : \A i \in 1..Len(r.log) :
             r.log[i].how = "ambient" =>
                /\ r.log[i].val # None
                /\ r.log[i].val.v = AmbientOf(r, VarOf(r.log[i].param.ann)).v
       /\ \A r \in Observed : \A p \in Unsupplied(r) :
             InScope(r, p) /\ AmbientOf(r, VarOf(p.ann)) = None =>
                \A i \in 1..Len(r.log) :
                    ~(r.log[i].callee = r.func /\ r.log[i].param = p)
       /\ last.d # 0 =>
             /\ last.called =>
                   \A p \in Unsupplied(last) : InScope(last, p) =>
                       (p.name \in DOMAIN last.given
                          <=> AmbientOf(last, VarOf(p.ann)) # None)
             /\ ~last.called /\ last.err \in ContextErrors => Unavailable(last)

\* h_connect was dispatched for a connect event with a socket id and
\* without environ and auth: its resolver bound sid, bound nothing to
\* environ and auth and raised nothing, and the call of the handler failed
\* for the missing auth argument.
C35_Witness ==
    /\ last.func = "h_connect"
    /\ last.args = ConnectNoAuth
    /\ last.parent = 0
    /\ last.explicit = Empty
    /\ last.err = "TypeError"
    /\ \E i \in 1..Len(last.log) : last.log[i].param.name = "sid"
    /\ \A i \in 1..Len(last.log) : last.log[i].param.name \notin {"environ", "auth"}

\* C36: no exit of a DependencyContext raises, and once every enter made
\* in a context has had its exit, whatever the order of the exits and
\* however often one object was entered, every context variable reads as
\* it did before the first enter: here absent, nothing having been set.
C36_AllExitedRestores ==
    /\ scopes.err = ""
    /\ (scopes.entered > 0 /\ \A o \in DOMAIN scopes.objs : scopes.objs[o].open = 0) =>
          ctx["t1"] = RootCtx

\* C37: the arguments passed positionally to the wrapper that
\* inject_dependencies made of a handler are explicit arguments: a handler
\* that is called has each of them as the argument of the parameter in its
\* position, and nothing is resolved for that parameter from the context
\* or from a factory.
C37_PositionalArgumentsAreExplicit ==
    injected # NoInjected /\ injected.called =>
        \A i \in 1..Len(injected.args) :
            LET p == Sig[injected.func].params[i] IN
            /\ p.name \in DOMAIN injected.given
            /\ injected.given[p.name] = injected.args[i]
            /\ \A j \in 1..Len(injected.log) :
                  ~(/\ injected.log[j].callee = injected.func
                    /\ injected.log[j].param = p
                    /\ injected.log[j].how # "explicit")

====
